---------------------------- MODULE Spec2Model ----------------------------
(***************************************************************************)
(* A model of src/ErrorX.py: the WPS PIN generator (EnhancedWPSpin,        *)
(* NetworkAddress), the trace classifier and single attempt                *)
(* (EnhancedCompanion.__handle_wpas, __wps_connection, single_connection)  *)
(* and the two-phase online bruteforce (smart_bruteforce).                 *)
(*                                                                         *)
(* Python strings are sequences of one-character strings; None, False and  *)
(* raised exceptions are the tagged values defined below.                  *)
(***************************************************************************)
EXTENDS Integers, Sequences, FiniteSets, TLC

(***************************************************************************)
(* Python values and string primitives                                     *)
(***************************************************************************)
\* None is a one-element sequence no Python string of the model equals
None == <<"None">>

DecChars == <<"0", "1", "2", "3", "4", "5", "6", "7", "8", "9">>

HexUpper == <<"0", "1", "2", "3", "4", "5", "6", "7", "8", "9",
              "A", "B", "C", "D", "E", "F">>

HexLower == <<"0", "1", "2", "3", "4", "5", "6", "7", "8", "9",
              "a", "b", "c", "d", "e", "f">>

Range(s) == {s[i] : i \in DOMAIN s}

IsDecimal(s) == Len(s) > 0 /\ \A i \in DOMAIN s : s[i] \in Range(DecChars)

DecVal(c) == (CHOOSE i \in DOMAIN DecChars : DecChars[i] = c) - 1

IsHexChar(c) == c \in Range(HexUpper) \cup Range(HexLower)

HexVal(c) ==
    IF c \in Range(HexUpper)
    THEN (CHOOSE i \in DOMAIN HexUpper : HexUpper[i] = c) - 1
    ELSE (CHOOSE i \in DOMAIN HexLower : HexLower[i] = c) - 1

\* int(s) for a decimal string s (leading zeros allowed)
RECURSIVE StrToInt(_)
StrToInt(s) ==
    IF Len(s) = 0 THEN 0
    ELSE (10 * StrToInt(SubSeq(s, 1, Len(s) - 1))) + DecVal(s[Len(s)])

\* str(n) for n >= 0: no leading zeros, "0" for 0
RECURSIVE IntToStr(_)
IntToStr(n) ==
    IF n < 10 THEN <<DecChars[n + 1]>>
    ELSE Append(IntToStr(n \div 10), DecChars[(n % 10) + 1])

\* s.zfill(w): pads on the left, never truncates
RECURSIVE ZFill(_, _)
ZFill(s, w) == IF Len(s) >= w THEN s ELSE ZFill(<<"0">> \o s, w)

\* s.upper() on the characters a MAC string can hold
UpperChar(c) ==
    IF c \in Range(HexLower) THEN HexUpper[CHOOSE i \in DOMAIN HexLower : HexLower[i] = c]
    ELSE c

Upper(s) == [i \in DOMAIN s |-> UpperChar(s[i])]

\* s.replace(a, b) for single characters a, b
ReplaceChar(s, a, b) == [i \in DOMAIN s |-> IF s[i] = a THEN b ELSE s[i]]

\* s.replace(a, '') for a single character a
RECURSIVE RemoveChar(_, _)
RemoveChar(s, a) ==
    IF Len(s) = 0 THEN <<>>
    ELSE IF s[1] = a THEN RemoveChar(Tail(s), a)
    ELSE <<s[1]>> \o RemoveChar(Tail(s), a)

\* s.startswith(p)
StartsWith(s, p) == Len(p) <= Len(s) /\ SubSeq(s, 1, Len(p)) = p

(***************************************************************************)
(* Bit arithmetic on naturals                                              *)
(***************************************************************************)
RECURSIVE BitXor(_, _)
BitXor(a, b) ==
    IF a = 0 THEN b
    ELSE IF b = 0 THEN a
    ELSE (((a % 2) + (b % 2)) % 2) + 2 * BitXor(a \div 2, b \div 2)

(***************************************************************************)
(* NetworkAddress                                                          *)
(***************************************************************************)
\* a raised ValueError, as the value of the call that raised it
ValueError == [raised |-> "ValueError"]

\* re '^([0-9A-Fa-f]{2}[:-]){5}([0-9A-Fa-f]{2})$'
MacStrLen == 17

is_valid_mac(mac) ==
    /\ \/ Len(mac) = MacStrLen
       \/ Len(mac) = MacStrLen + 1 /\ mac[MacStrLen + 1] = "\n"
    /\ \A i \in 1..MacStrLen :
          IF i % 3 = 0 THEN mac[i] \in {":", "-"} ELSE IsHexChar(mac[i])

\* int(h, 16) for a string of hex digits
RECURSIVE HexToInt(_)
HexToInt(h) ==
    IF Len(h) = 0 THEN 0
    ELSE (16 * HexToInt(SubSeq(h, 1, Len(h) - 1))) + HexVal(h[Len(h)])

\* A MAC integer is kept as its two 24-bit halves (hi * 2^24 + lo): the
\* checker's integers are 32 bits wide, Python's are not.
Half == 16777216

\* the characters int() skips at both ends of its argument
Whitespace == {" ", "\t", "\n", "\r"}

\* s.strip()
RECURSIVE Strip(_)
Strip(s) ==
    IF Len(s) = 0 THEN s
    ELSE IF s[1] \in Whitespace THEN Strip(Tail(s))
    ELSE IF s[Len(s)] \in Whitespace THEN Strip(SubSeq(s, 1, Len(s) - 1))
    ELSE s

\* int(mac.replace(':', ''), 16): surrounding whitespace is skipped, any other
\* character that is not a hex digit raises ValueError
mac2int(mac) ==
    LET h == Strip(RemoveChar(mac, ":"))
    IN  IF Len(h) > 0 /\ \A i \in DOMAIN h : IsHexChar(h[i])
        THEN IF Len(h) <= 6
             THEN [hi |-> 0, lo |-> HexToInt(h)]
             ELSE [hi |-> HexToInt(SubSeq(h, 1, Len(h) - 6)),
                   lo |-> HexToInt(SubSeq(h, Len(h) - 5, Len(h)))]
        ELSE ValueError

\* n + k for a MAC integer n and -2^24 < k < 2^24
IntAdd(n, k) == [hi |-> n.hi + ((n.lo + k) \div Half), lo |-> (n.lo + k) % Half]

\* hex(n).split('x')[-1].upper() for a natural n
RECURSIVE HexDigits(_)
HexDigits(n) ==
    IF n < 16 THEN <<HexUpper[n + 1]>>
    ELSE Append(HexDigits(n \div 16), HexUpper[(n % 16) + 1])

\* ':'.join(mac[i:i+2] for i in range(0, 12, 2)): characters past the 12th are dropped
RECURSIVE JoinPairs(_, _)
JoinPairs(h, i) ==
    LET piece == SubSeq(h, i, IF i + 1 <= Len(h) THEN i + 1 ELSE Len(h))
    IN  IF i >= 11 THEN piece ELSE piece \o <<":">> \o JoinPairs(h, i + 2)

\* abs(n) for a MAC integer n (a negative n has a negative high half)
IntAbs(n) ==
    IF n.hi >= 0 THEN n
    ELSE IF n.lo = 0 THEN [hi |-> -n.hi, lo |-> 0]
    ELSE [hi |-> (-n.hi) - 1, lo |-> Half - n.lo]

\* _int2mac(mac): hex(mac) of a negative integer is '-0x...', and split('x')[-1]
\* keeps the digits of its absolute value
int2mac(n) ==
    LET a == IntAbs(n)
        digits == IF a.hi = 0 THEN HexDigits(a.lo)
                  ELSE HexDigits(a.hi) \o ZFill(HexDigits(a.lo), 6)
    IN  JoinPairs(ZFill(digits, 12), 1)

\* NetworkAddress(mac) for a str argument: the object, or the ValueError raised
NetworkAddress(mac) ==
    LET str_repr == Upper(ReplaceChar(ReplaceChar(mac, "-", ":"), ".", ":"))
    IN  IF ~is_valid_mac(str_repr) THEN ValueError
        ELSE IF mac2int(mac) = ValueError THEN ValueError
        ELSE [string |-> str_repr, integer |-> mac2int(mac)]

\* NetworkAddress(mac) for an int argument >= 0
NetworkAddressInt(mac) == [string |-> int2mac(mac), integer |-> mac]

\* the string setter: mac.string = value. _str_repr is assigned before _mac2int
\* is applied, so a ValueError raised there leaves the new string with the old integer
SetString(mac, value) ==
    IF ~is_valid_mac(value) THEN [obj |-> mac, raised |-> TRUE]
    ELSE IF mac2int(value) = ValueError
    THEN [obj |-> [mac EXCEPT !.string = value], raised |-> TRUE]
    ELSE [obj |-> [string |-> value, integer |-> mac2int(value)], raised |-> FALSE]

\* the integer setter: mac.integer = value
SetInteger(mac, value) == [string |-> int2mac(value), integer |-> value]

(***************************************************************************)
(* EnhancedWPSpin                                                          *)
(***************************************************************************)
\* accum after the while loop of checksum(pin); int(pin / 10) truncates
RECURSIVE ChecksumAccum(_)
ChecksumAccum(pin) ==
    IF pin = 0 THEN 0
    ELSE LET p1 == pin \div 10
         IN  (3 * (pin % 10)) + (p1 % 10) + ChecksumAccum(p1 \div 10)

\* a check digit with the two weights exchanged (1 on the units digit, 3 on the next)
RECURSIVE ChecksumAccumSwapped(_)
ChecksumAccumSwapped(pin) ==
    IF pin = 0 THEN 0
    ELSE LET p1 == pin \div 10
         IN  (pin % 10) + (3 * (p1 % 10)) + ChecksumAccumSwapped(p1 \div 10)

checksumSwapped(pin) == (10 - (ChecksumAccumSwapped(pin) % 10)) % 10

checksum(pin) == (10 - (ChecksumAccum(pin) % 10)) % 10

PinModulus == 10000000

\* mac.integer & 0xFFFFFF
pin24(mac) == mac.integer.lo

\* mac.integer & 0xFFFFFFF
pin28(mac) == ((mac.integer.hi % 16) * Half) + mac.integer.lo

\* mac.integer % 0x100000000 does not fit 32 bits: the value is given already
\* reduced modulo 10,000,000, as generate reduces it (2^24 mod 10^7 = 6777216)
pin32(mac) == (((mac.integer.hi % 256) * (Half % 10000000)) + mac.integer.lo) % 10000000

pinDLink(mac) ==
    LET nic  == mac.integer.lo                           \* & 0xFFFFFF
        pin0 == BitXor(nic, 5614165)                     \* 0x55AA55
        nib  == pin0 % 16
        pin1 == BitXor(pin0, (nib * 16) + (nib * 256) + (nib * 4096)
                             + (nib * 65536) + (nib * 1048576))
        pin2 == pin1 % 10000000                          \* int(10e6)
    IN  IF pin2 < 1000000                                \* int(10e5)
        THEN pin2 + ((pin2 % 9) * 1000000) + 1000000
        ELSE pin2

\* mac.integer += 1
pinDLink1(mac) == pinDLink(SetInteger(mac, IntAdd(mac.integer, 1)))

\* b = [int(i, 16) for i in mac.string.split(':')]
Octets(mac) == [k \in 1..6 |-> HexToInt(SubSeq(mac.string, 3 * k - 2, 3 * k - 1))]

pinASUS(mac) ==
    LET b == Octets(mac)
        d(i) == (b[(i % 6) + 1] + b[6]) % (10 - ((i + b[2] + b[3] + b[4] + b[5] + b[6]) % 7))
        RECURSIVE Cat(_)
        Cat(i) == IF i = 7 THEN <<>> ELSE IntToStr(d(i)) \o Cat(i + 1)
    IN  StrToInt(Cat(0))

pinAirocon(mac) ==
    LET b == Octets(mac)
    IN    ((b[1] + b[2]) % 10)
        + (((b[6] + b[1]) % 10) * 10)
        + (((b[5] + b[6]) % 10) * 100)
        + (((b[4] + b[5]) % 10) * 1000)
        + (((b[3] + b[4]) % 10) * 10000)
        + (((b[2] + b[3]) % 10) * 100000)
        + (((b[1] + b[2]) % 10) * 1000000)

\* the 'gen' of the static algorithms: lambda mac: <constant>
StaticPins ==
    [pinCisco |-> 1234567, pinBrcm1 |-> 2017252, pinBrcm2 |-> 4626484,
     pinBrcm3 |-> 7622990, pinBrcm4 |-> 6232714, pinBrcm5 |-> 1086411,
     pinBrcm6 |-> 3195719, pinAirc1 |-> 3043203, pinAirc2 |-> 7141225,
     pinDSL2740R |-> 6817554, pinRealtek1 |-> 9566146, pinRealtek2 |-> 9571911,
     pinRealtek3 |-> 4856371, pinUpvel |-> 2085483, pinUR814AC |-> 4397768,
     pinUR825AC |-> 529417, pinOnlime |-> 9995604, pinEdimax |-> 3561153,
     pinThomson |-> 6795814, pinHG532x |-> 3425928, pinH108L |-> 9422988,
     pinONO |-> 9575521]

MacAlgos == {"pin24", "pin28", "pin32", "pinDLink", "pinDLink1", "pinASUS", "pinAirocon"}

algos == MacAlgos \cup {"pinEmpty"} \cup DOMAIN StaticPins

\* self.algos[algo]['gen'](mac)
Gen(algo, mac) ==
    CASE algo = "pin24" -> pin24(mac)
      [] algo = "pin28" -> pin28(mac)
      [] algo = "pin32" -> pin32(mac)
      [] algo = "pinDLink" -> pinDLink(mac)
      [] algo = "pinDLink1" -> pinDLink1(mac)
      [] algo = "pinASUS" -> pinASUS(mac)
      [] algo = "pinAirocon" -> pinAirocon(mac)
      [] algo = "pinEmpty" -> <<>>
      [] OTHER -> StaticPins[algo]

\* no exception reaches the caller
NoException == ""

\* the exception raised inside the try block of generate(algo, mac), if any
RaisedInGenerate(algo, mac) ==
    IF NetworkAddress(mac) = ValueError THEN "ValueError"
    ELSE IF algo \notin algos THEN "ValueError"
    ELSE NoException

\* except Exception as e: ... return None -- what the caller of generate sees of exc
PropagatedByGenerate(exc) == NoException

\* generate(algo, mac): every exception is caught and None returned
generate(algo, mac) ==
    LET m == NetworkAddress(mac)
    IN  IF m = ValueError THEN None
        ELSE IF algo \notin algos THEN None
        ELSE IF algo = "pinEmpty" THEN Gen(algo, m)
        ELSE LET pin == Gen(algo, m) % PinModulus
             IN  ZFill(IntToStr(pin) \o IntToStr(checksum(pin)), 8)

\* the algorithms table of _suggest, in its order: the id and its MAC prefixes
SuggestTable ==
    <<
     [id |-> "pin24", masks |-> <<
          <<"0", "4", "B", "F", "6", "D">>, <<"0", "E", "5", "D", "4", "E">>,
          <<"1", "0", "7", "B", "E", "F">>, <<"1", "4", "A", "9", "E", "3">>,
          <<"2", "8", "2", "8", "5", "D">>, <<"2", "A", "2", "8", "5", "D">>,
          <<"3", "2", "B", "2", "D", "C">>, <<"3", "8", "1", "7", "6", "6">>,
          <<"4", "0", "4", "A", "0", "3">>, <<"4", "E", "5", "D", "4", "E">>,
          <<"5", "0", "6", "7", "F", "0">>, <<"5", "C", "F", "4", "A", "B">>,
          <<"6", "A", "2", "8", "5", "D">>, <<"8", "E", "5", "D", "4", "E">>,
          <<"A", "A", "2", "8", "5", "D">>, <<"B", "0", "B", "2", "D", "C">>,
          <<"C", "8", "6", "C", "8", "7">>, <<"C", "C", "5", "D", "4", "E">>,
          <<"C", "E", "5", "D", "4", "E">>, <<"E", "A", "2", "8", "5", "D">>,
          <<"E", "2", "4", "3", "F", "6">>, <<"E", "C", "4", "3", "F", "6">>,
          <<"E", "E", "4", "3", "F", "6">>, <<"F", "2", "B", "2", "D", "C">>,
          <<"F", "C", "F", "5", "2", "8">>, <<"F", "E", "F", "5", "2", "8">>,
          <<"4", "C", "9", "E", "F", "F">>, <<"0", "0", "1", "4", "D", "1">>,
          <<"D", "8", "E", "B", "9", "7">>, <<"1", "C", "7", "E", "E", "5">>,
          <<"8", "4", "C", "9", "B", "2">>, <<"F", "C", "7", "5", "1", "6">>,
          <<"1", "4", "D", "6", "4", "D">>, <<"9", "0", "9", "4", "E", "4">>,
          <<"B", "C", "F", "6", "8", "5">>, <<"C", "4", "A", "8", "1", "D">>,
          <<"0", "0", "6", "6", "4", "B">>, <<"0", "8", "7", "A", "4", "C">>,
          <<"1", "4", "B", "9", "6", "8">>, <<"2", "0", "0", "8", "E", "D">>,
          <<"3", "4", "6", "B", "D", "3">>, <<"4", "C", "E", "D", "D", "E">>,
          <<"7", "8", "6", "A", "8", "9">>, <<"8", "8", "E", "3", "A", "B">>,
          <<"D", "4", "6", "E", "5", "C">>, <<"E", "8", "C", "D", "2", "D">>,
          <<"E", "C", "2", "3", "3", "D">>, <<"E", "C", "C", "B", "3", "0">>,
          <<"F", "4", "9", "F", "F", "3">>, <<"2", "0", "C", "F", "3", "0">>,
          <<"9", "0", "E", "6", "B", "A">>, <<"E", "0", "C", "B", "4", "E">>,
          <<"D", "4", "B", "F", "7", "F", "4">>, <<"F", "8", "C", "0", "9", "1">>,
          <<"0", "0", "1", "C", "D", "F">>, <<"0", "0", "2", "2", "7", "5">>,
          <<"0", "8", "8", "6", "3", "B">>, <<"0", "0", "B", "0", "0", "C">>,
          <<"0", "8", "1", "0", "7", "5">>, <<"C", "8", "3", "A", "3", "5">>,
          <<"0", "0", "2", "2", "F", "7">>, <<"0", "0", "1", "F", "1", "F">>,
          <<"0", "0", "2", "6", "5", "B">>, <<"6", "8", "B", "6", "C", "F">>,
          <<"7", "8", "8", "D", "F", "7">>, <<"B", "C", "1", "4", "0", "1">>,
          <<"2", "0", "2", "B", "C", "1">>, <<"3", "0", "8", "7", "3", "0">>,
          <<"5", "C", "4", "C", "A", "9">>, <<"6", "2", "2", "3", "3", "D">>,
          <<"6", "2", "3", "C", "E", "4">>, <<"6", "2", "3", "D", "F", "F">>,
          <<"6", "2", "5", "3", "D", "4">>, <<"6", "2", "5", "5", "9", "C">>,
          <<"6", "2", "6", "B", "D", "3">>, <<"6", "2", "7", "D", "5", "E">>,
          <<"6", "2", "9", "6", "B", "F">>, <<"6", "2", "A", "8", "E", "4">>,
          <<"6", "2", "B", "6", "8", "6">>, <<"6", "2", "C", "0", "6", "F">>,
          <<"6", "2", "C", "6", "1", "F">>, <<"6", "2", "C", "7", "1", "4">>,
          <<"6", "2", "C", "B", "A", "8">>, <<"6", "2", "C", "D", "B", "E">>,
          <<"6", "2", "E", "8", "7", "B">>, <<"6", "4", "1", "6", "F", "0">>,
          <<"6", "A", "1", "D", "6", "7">>, <<"6", "A", "2", "3", "3", "D">>,
          <<"6", "A", "3", "D", "F", "F">>, <<"6", "A", "5", "3", "D", "4">>,
          <<"6", "A", "5", "5", "9", "C">>, <<"6", "A", "6", "B", "D", "3">>,
          <<"6", "A", "9", "6", "B", "F">>, <<"6", "A", "7", "D", "5", "E">>,
          <<"6", "A", "A", "8", "E", "4">>, <<"6", "A", "C", "0", "6", "F">>,
          <<"6", "A", "C", "6", "1", "F">>, <<"6", "A", "C", "7", "1", "4">>,
          <<"6", "A", "C", "B", "A", "8">>, <<"6", "A", "C", "D", "B", "E">>,
          <<"6", "A", "D", "1", "5", "E">>, <<"6", "A", "D", "1", "6", "7">>,
          <<"7", "2", "1", "D", "6", "7">>, <<"7", "2", "2", "3", "3", "D">>,
          <<"7", "2", "3", "C", "E", "4">>, <<"7", "2", "3", "D", "F", "F">>,
          <<"7", "2", "5", "3", "D", "4">>, <<"7", "2", "5", "5", "9", "C">>,
          <<"7", "2", "6", "B", "D", "3">>, <<"7", "2", "7", "D", "5", "E">>,
          <<"7", "2", "9", "6", "B", "F">>, <<"7", "2", "A", "8", "E", "4">>,
          <<"7", "2", "C", "0", "6", "F">>, <<"7", "2", "C", "6", "1", "F">>,
          <<"7", "2", "C", "7", "1", "4">>, <<"7", "2", "C", "B", "A", "8">>,
          <<"7", "2", "C", "D", "B", "E">>, <<"7", "2", "D", "1", "5", "E">>,
          <<"7", "2", "E", "8", "7", "B">>, <<"0", "0", "2", "6", "C", "E">>,
          <<"9", "8", "9", "7", "D", "1">>, <<"E", "0", "4", "1", "3", "6">>,
          <<"B", "2", "4", "6", "F", "C">>, <<"E", "2", "4", "1", "3", "6">>,
          <<"0", "0", "E", "0", "2", "0">>, <<"5", "C", "A", "3", "9", "D">>,
          <<"D", "8", "6", "C", "E", "9">>, <<"D", "C", "7", "1", "4", "4">>,
          <<"8", "0", "1", "F", "0", "2">>, <<"E", "4", "7", "C", "F", "9">>,
          <<"0", "0", "0", "C", "F", "6">>, <<"0", "0", "A", "0", "2", "6">>,
          <<"A", "0", "F", "3", "C", "1">>, <<"6", "4", "7", "0", "0", "2">>,
          <<"B", "0", "4", "8", "7", "A">>, <<"F", "8", "1", "A", "6", "7">>,
          <<"F", "8", "D", "1", "1", "1">>, <<"3", "4", "B", "A", "9", "A">>,
          <<"B", "4", "9", "4", "4", "E">>>>],
     [id |-> "pin28", masks |-> <<
          <<"2", "0", "0", "B", "C", "7">>, <<"4", "8", "4", "6", "F", "B">>,
          <<"D", "4", "6", "A", "A", "8">>, <<"F", "8", "4", "A", "B", "F">>>>],
     [id |-> "pin32", masks |-> <<
          <<"0", "0", "0", "7", "2", "6">>, <<"D", "8", "F", "E", "E", "3">>,
          <<"F", "C", "8", "B", "9", "7">>, <<"1", "0", "6", "2", "E", "B">>,
          <<"1", "C", "5", "F", "2", "B">>, <<"4", "8", "E", "E", "0", "C">>,
          <<"8", "0", "2", "6", "8", "9">>, <<"9", "0", "8", "D", "7", "8">>,
          <<"E", "8", "C", "C", "1", "8">>, <<"2", "C", "A", "B", "2", "5">>,
          <<"1", "0", "B", "F", "4", "8">>, <<"1", "4", "D", "A", "E", "9">>,
          <<"3", "0", "8", "5", "A", "9">>, <<"5", "0", "4", "6", "5", "D">>,
          <<"5", "4", "0", "4", "A", "6">>, <<"C", "8", "6", "0", "0", "0">>,
          <<"F", "4", "6", "D", "0", "4">>, <<"3", "0", "8", "5", "A", "9">>,
          <<"8", "0", "1", "F", "0", "2">>>>],
     [id |-> "pinDLink", masks |-> <<
          <<"1", "4", "D", "6", "4", "D">>, <<"1", "C", "7", "E", "E", "5">>,
          <<"2", "8", "1", "0", "7", "B">>, <<"8", "4", "C", "9", "B", "2">>,
          <<"A", "0", "A", "B", "1", "B">>, <<"B", "8", "A", "3", "8", "6">>,
          <<"C", "0", "A", "0", "B", "B">>, <<"C", "C", "B", "2", "5", "5">>,
          <<"F", "C", "7", "5", "1", "6">>, <<"0", "0", "1", "4", "D", "1">>,
          <<"D", "8", "E", "B", "9", "7">>>>],
     [id |-> "pinDLink1", masks |-> <<
          <<"0", "0", "1", "8", "E", "7">>, <<"0", "0", "1", "9", "5", "B">>,
          <<"0", "0", "1", "C", "F", "0">>, <<"0", "0", "1", "E", "5", "8">>,
          <<"0", "0", "2", "1", "9", "1">>, <<"0", "0", "2", "2", "B", "0">>,
          <<"0", "0", "2", "4", "0", "1">>, <<"0", "0", "2", "6", "5", "A">>,
          <<"1", "4", "D", "6", "4", "D">>, <<"1", "C", "7", "E", "E", "5">>,
          <<"3", "4", "0", "8", "0", "4">>, <<"5", "C", "D", "9", "9", "8">>,
          <<"8", "4", "C", "9", "B", "2">>, <<"B", "8", "A", "3", "8", "6">>,
          <<"C", "8", "B", "E", "1", "9">>, <<"C", "8", "D", "3", "A", "3">>,
          <<"C", "C", "B", "2", "5", "5">>, <<"0", "0", "1", "4", "D", "1">>>>],
     [id |-> "pinASUS", masks |-> <<
          <<"0", "4", "9", "2", "2", "6">>, <<"0", "4", "D", "9", "F", "5">>,
          <<"0", "8", "6", "0", "6", "E">>, <<"0", "8", "6", "2", "6", "6", "9">>,
          <<"1", "0", "7", "B", "4", "4">>, <<"1", "0", "B", "F", "4", "8">>,
          <<"1", "0", "C", "3", "7", "B">>, <<"1", "4", "D", "D", "A", "9">>,
          <<"1", "C", "8", "7", "2", "C">>, <<"1", "C", "B", "7", "2", "C">>,
          <<"2", "C", "5", "6", "D", "C">>, <<"2", "C", "F", "D", "A", "1">>,
          <<"3", "0", "5", "A", "3", "A">>, <<"3", "8", "2", "C", "4", "A">>,
          <<"3", "8", "D", "5", "4", "7">>, <<"4", "0", "1", "6", "7", "E">>,
          <<"5", "0", "4", "6", "5", "D">>, <<"5", "4", "A", "0", "5", "0">>,
          <<"6", "0", "4", "5", "C", "B">>, <<"6", "0", "A", "4", "4", "C">>,
          <<"7", "0", "4", "D", "7", "B">>, <<"7", "4", "D", "0", "2", "B">>,
          <<"7", "8", "2", "4", "A", "F">>, <<"8", "8", "D", "7", "F", "6">>,
          <<"9", "C", "5", "C", "8", "E">>, <<"A", "C", "2", "2", "0", "B">>,
          <<"A", "C", "9", "E", "1", "7">>, <<"B", "0", "6", "E", "B", "F">>,
          <<"B", "C", "E", "E", "7", "B">>, <<"C", "8", "6", "0", "0", "0", "7">>,
          <<"D", "0", "1", "7", "C", "2">>, <<"D", "8", "5", "0", "E", "6">>,
          <<"E", "0", "3", "F", "4", "9">>, <<"F", "0", "7", "9", "5", "9", "7", "8">>,
          <<"F", "8", "3", "2", "E", "4">>, <<"0", "0", "0", "7", "2", "6", "2", "4">>,
          <<"0", "0", "0", "8", "A", "1", "D", "3">>, <<"0", "0", "1", "7", "7", "C">>,
          <<"0", "0", "1", "E", "A", "6">>, <<"0", "0", "3", "0", "4", "F", "B">>,
          <<"0", "0", "E", "0", "4", "C", "0">>, <<"0", "4", "8", "D", "3", "8">>,
          <<"0", "8", "1", "0", "7", "7">>, <<"0", "8", "1", "0", "7", "8">>,
          <<"0", "8", "1", "0", "7", "9">>, <<"0", "8", "3", "E", "5", "D">>,
          <<"1", "0", "F", "E", "E", "D", "3", "C">>, <<"1", "8", "1", "E", "7", "8">>,
          <<"1", "C", "4", "4", "1", "9">>, <<"2", "4", "2", "0", "C", "7">>,
          <<"2", "4", "7", "F", "2", "0">>, <<"2", "C", "A", "B", "2", "5">>,
          <<"3", "0", "8", "5", "A", "9", "8", "C">>, <<"3", "C", "1", "E", "0", "4">>,
          <<"4", "0", "F", "2", "0", "1">>, <<"4", "4", "E", "9", "D", "D">>,
          <<"4", "8", "E", "E", "0", "C">>, <<"5", "4", "6", "4", "D", "9">>,
          <<"5", "4", "B", "8", "0", "A">>, <<"5", "8", "7", "B", "E", "9", "0", "6">>,
          <<"6", "0", "D", "1", "A", "A", "2", "1">>, <<"6", "4", "5", "1", "7", "E">>,
          <<"6", "4", "D", "9", "5", "4">>, <<"6", "C", "1", "9", "8", "F">>,
          <<"6", "C", "7", "2", "2", "0">>, <<"6", "C", "F", "D", "B", "9">>,
          <<"7", "8", "D", "9", "9", "F", "D">>, <<"7", "C", "2", "6", "6", "4">>,
          <<"8", "0", "3", "F", "5", "D", "F", "6">>, <<"8", "4", "A", "4", "2", "3">>,
          <<"8", "8", "A", "6", "C", "6">>, <<"8", "C", "1", "0", "D", "4">>,
          <<"8", "C", "8", "8", "2", "B", "0", "0">>, <<"9", "0", "4", "D", "4", "A">>,
          <<"9", "0", "7", "2", "8", "2">>, <<"9", "0", "F", "6", "5", "2", "9", "0">>,
          <<"9", "4", "F", "B", "B", "2">>, <<"A", "0", "1", "B", "2", "9">>,
          <<"A", "0", "F", "3", "C", "1", "E">>, <<"A", "8", "F", "7", "E", "0", "0">>,
          <<"A", "C", "A", "2", "1", "3">>, <<"B", "8", "5", "5", "1", "0">>,
          <<"B", "8", "E", "E", "0", "E">>, <<"B", "C", "3", "4", "0", "0">>,
          <<"B", "C", "9", "6", "8", "0">>, <<"C", "8", "9", "1", "F", "9">>,
          <<"D", "0", "0", "E", "D", "9", "0">>, <<"D", "0", "8", "4", "B", "0">>,
          <<"D", "8", "F", "E", "E", "3">>, <<"E", "4", "B", "E", "E", "D">>,
          <<"E", "8", "9", "4", "F", "6", "F", "6">>,
          <<"E", "C", "1", "A", "5", "9", "7", "1">>, <<"E", "C", "4", "C", "4", "D">>,
          <<"F", "4", "2", "8", "5", "3">>, <<"F", "4", "3", "E", "6", "1">>,
          <<"F", "4", "6", "B", "E", "F">>, <<"F", "8", "A", "B", "0", "5">>,
          <<"F", "C", "8", "B", "9", "7">>, <<"7", "0", "6", "2", "B", "8">>,
          <<"7", "8", "5", "4", "2", "E">>, <<"C", "0", "A", "0", "B", "B", "8", "C">>,
          <<"C", "4", "1", "2", "F", "5">>, <<"C", "4", "A", "8", "1", "D">>,
          <<"E", "8", "C", "C", "1", "8">>, <<"E", "C", "2", "2", "8", "0">>,
          <<"F", "8", "E", "9", "0", "3", "F", "4">>>>],
     [id |-> "pinAirocon", masks |-> <<
          <<"0", "0", "0", "7", "2", "6", "2", "F">>,
          <<"0", "0", "0", "B", "2", "B", "4", "A">>,
          <<"0", "0", "0", "E", "F", "4", "E", "7">>, <<"0", "0", "1", "3", "3", "3", "B">>,
          <<"0", "0", "1", "7", "7", "C">>, <<"0", "0", "1", "A", "E", "F">>,
          <<"0", "0", "E", "0", "4", "B", "B", "3">>,
          <<"0", "2", "1", "0", "1", "8", "0", "1">>, <<"0", "8", "1", "0", "7", "3", "4">>,
          <<"0", "8", "1", "0", "7", "7", "1", "0">>, <<"1", "0", "1", "3", "E", "E", "0">>,
          <<"2", "C", "A", "B", "2", "5", "C", "7">>, <<"7", "8", "8", "C", "5", "4">>,
          <<"8", "0", "3", "F", "5", "D", "F", "6">>, <<"9", "4", "F", "B", "B", "2">>,
          <<"B", "C", "9", "6", "8", "0">>, <<"F", "4", "3", "E", "6", "1">>,
          <<"F", "C", "8", "B", "9", "7">>>>],
     [id |-> "pinEmpty", masks |-> <<
          <<"E", "4", "6", "F", "1", "3">>, <<"E", "C", "2", "2", "8", "0">>,
          <<"5", "8", "D", "5", "6", "E">>, <<"1", "0", "6", "2", "E", "B">>,
          <<"1", "0", "B", "E", "F", "5">>, <<"1", "C", "5", "F", "2", "B">>,
          <<"8", "0", "2", "6", "8", "9">>, <<"A", "0", "A", "B", "1", "B">>,
          <<"7", "4", "D", "A", "D", "A">>, <<"9", "C", "D", "6", "4", "3">>,
          <<"6", "8", "A", "0", "F", "6">>, <<"0", "C", "9", "6", "B", "F">>,
          <<"2", "0", "F", "3", "A", "3">>, <<"A", "C", "E", "2", "1", "5">>,
          <<"C", "8", "D", "1", "5", "E">>, <<"0", "0", "0", "E", "8", "F">>,
          <<"D", "4", "2", "1", "2", "2">>, <<"3", "C", "9", "8", "7", "2">>,
          <<"7", "8", "8", "1", "0", "2">>, <<"7", "8", "9", "4", "B", "4">>,
          <<"D", "4", "6", "0", "E", "3">>, <<"E", "0", "6", "0", "6", "6">>,
          <<"0", "0", "4", "A", "7", "7">>, <<"2", "C", "9", "5", "7", "F">>,
          <<"6", "4", "1", "3", "6", "C">>, <<"7", "4", "A", "7", "8", "E">>,
          <<"8", "8", "D", "2", "7", "4">>, <<"7", "0", "2", "E", "2", "2">>,
          <<"7", "4", "B", "5", "7", "E">>, <<"7", "8", "9", "6", "8", "2">>,
          <<"7", "C", "3", "9", "5", "3">>, <<"8", "C", "6", "8", "C", "8">>,
          <<"D", "4", "7", "6", "E", "A">>, <<"3", "4", "4", "D", "E", "A">>,
          <<"3", "8", "D", "8", "2", "F">>, <<"5", "4", "B", "E", "5", "3">>,
          <<"7", "0", "9", "F", "2", "D">>, <<"9", "4", "A", "7", "B", "7">>,
          <<"9", "8", "1", "3", "3", "3">>, <<"C", "A", "A", "3", "6", "6">>,
          <<"D", "0", "6", "0", "8", "C">>>>],
     [id |-> "pinCisco", masks |-> <<
          <<"0", "0", "1", "A", "2", "B">>, <<"0", "0", "2", "4", "8", "C">>,
          <<"0", "0", "2", "6", "1", "8">>, <<"3", "4", "4", "D", "E", "B">>,
          <<"7", "0", "7", "1", "B", "C">>, <<"E", "0", "6", "9", "9", "5">>,
          <<"E", "0", "C", "B", "4", "E">>, <<"7", "0", "5", "4", "F", "5">>>>],
     [id |-> "pinBrcm1", masks |-> <<
          <<"A", "C", "F", "1", "D", "F">>, <<"B", "C", "F", "6", "8", "5">>,
          <<"C", "8", "D", "3", "A", "3">>, <<"9", "8", "8", "B", "5", "D">>,
          <<"0", "0", "1", "A", "A", "9">>, <<"1", "4", "1", "4", "4", "B">>,
          <<"E", "C", "6", "2", "6", "4">>>>],
     [id |-> "pinBrcm2", masks |-> <<
          <<"1", "4", "D", "6", "4", "D">>, <<"1", "C", "7", "E", "E", "5">>,
          <<"2", "8", "1", "0", "7", "B">>, <<"8", "4", "C", "9", "B", "2">>,
          <<"B", "8", "A", "3", "8", "6">>, <<"B", "C", "F", "6", "8", "5">>,
          <<"C", "8", "B", "E", "1", "9">>>>],
     [id |-> "pinBrcm3", masks |-> <<
          <<"1", "4", "D", "6", "4", "D">>, <<"1", "C", "7", "E", "E", "5">>,
          <<"2", "8", "1", "0", "7", "B">>, <<"B", "8", "A", "3", "8", "6">>,
          <<"B", "C", "F", "6", "8", "5">>, <<"C", "8", "B", "E", "1", "9">>,
          <<"7", "C", "0", "3", "4", "C">>>>],
     [id |-> "pinBrcm4", masks |-> <<
          <<"1", "4", "D", "6", "4", "D">>, <<"1", "C", "7", "E", "E", "5">>,
          <<"2", "8", "1", "0", "7", "B">>, <<"8", "4", "C", "9", "B", "2">>,
          <<"B", "8", "A", "3", "8", "6">>, <<"B", "C", "F", "6", "8", "5">>,
          <<"C", "8", "B", "E", "1", "9">>, <<"C", "8", "D", "3", "A", "3">>,
          <<"C", "C", "B", "2", "5", "5">>, <<"F", "C", "7", "5", "1", "6">>,
          <<"2", "0", "4", "E", "7", "F">>, <<"4", "C", "1", "7", "E", "B">>,
          <<"1", "8", "6", "2", "2", "C">>, <<"7", "C", "0", "3", "D", "8">>,
          <<"D", "8", "6", "C", "E", "9">>>>],
     [id |-> "pinBrcm5", masks |-> <<
          <<"1", "4", "D", "6", "4", "D">>, <<"1", "C", "7", "E", "E", "5">>,
          <<"2", "8", "1", "0", "7", "B">>, <<"8", "4", "C", "9", "B", "2">>,
          <<"B", "8", "A", "3", "8", "6">>, <<"B", "C", "F", "6", "8", "5">>,
          <<"C", "8", "B", "E", "1", "9">>, <<"C", "8", "D", "3", "A", "3">>,
          <<"C", "C", "B", "2", "5", "5">>, <<"F", "C", "7", "5", "1", "6">>,
          <<"2", "0", "4", "E", "7", "F">>, <<"4", "C", "1", "7", "E", "B">>,
          <<"1", "8", "6", "2", "2", "C">>, <<"7", "C", "0", "3", "D", "8">>,
          <<"D", "8", "6", "C", "E", "9">>>>],
     [id |-> "pinBrcm6", masks |-> <<
          <<"1", "4", "D", "6", "4", "D">>, <<"1", "C", "7", "E", "E", "5">>,
          <<"2", "8", "1", "0", "7", "B">>, <<"8", "4", "C", "9", "B", "2">>,
          <<"B", "8", "A", "3", "8", "6">>, <<"B", "C", "F", "6", "8", "5">>,
          <<"C", "8", "B", "E", "1", "9">>, <<"C", "8", "D", "3", "A", "3">>,
          <<"C", "C", "B", "2", "5", "5">>, <<"F", "C", "7", "5", "1", "6">>,
          <<"2", "0", "4", "E", "7", "F">>, <<"4", "C", "1", "7", "E", "B">>,
          <<"1", "8", "6", "2", "2", "C">>, <<"7", "C", "0", "3", "D", "8">>,
          <<"D", "8", "6", "C", "E", "9">>>>],
     [id |-> "pinAirc1", masks |-> <<
          <<"1", "8", "1", "E", "7", "8">>, <<"4", "0", "F", "2", "0", "1">>,
          <<"4", "4", "E", "9", "D", "D">>, <<"D", "0", "8", "4", "B", "0">>>>],
     [id |-> "pinAirc2", masks |-> <<
          <<"8", "4", "A", "4", "2", "3">>, <<"8", "C", "1", "0", "D", "4">>,
          <<"8", "8", "A", "6", "C", "6">>>>],
     [id |-> "pinDSL2740R", masks |-> <<
          <<"0", "0", "2", "6", "5", "A">>, <<"1", "C", "B", "D", "B", "9">>,
          <<"3", "4", "0", "8", "0", "4">>, <<"5", "C", "D", "9", "9", "8">>,
          <<"8", "4", "C", "9", "B", "2">>, <<"F", "C", "7", "5", "1", "6">>>>],
     [id |-> "pinRealtek1", masks |-> <<
          <<"0", "0", "1", "4", "D", "1">>, <<"0", "0", "0", "C", "4", "2">>,
          <<"0", "0", "0", "E", "E", "8">>>>],
     [id |-> "pinRealtek2", masks |-> <<
          <<"0", "0", "7", "2", "6", "3">>, <<"E", "4", "B", "E", "E", "D">>>>],
     [id |-> "pinRealtek3", masks |-> <<
          <<"0", "8", "C", "6", "B", "3">>>>],
     [id |-> "pinUpvel", masks |-> <<
          <<"7", "8", "4", "4", "7", "6">>, <<"D", "4", "B", "F", "7", "F", "0">>,
          <<"F", "8", "C", "0", "9", "1">>>>],
     [id |-> "pinUR814AC", masks |-> <<
          <<"D", "4", "B", "F", "7", "F", "6", "0">>>>],
     [id |-> "pinUR825AC", masks |-> <<
          <<"D", "4", "B", "F", "7", "F", "5">>>>],
     [id |-> "pinOnlime", masks |-> <<
          <<"D", "4", "B", "F", "7", "F">>, <<"F", "8", "C", "0", "9", "1">>,
          <<"1", "4", "4", "D", "6", "7">>, <<"7", "8", "4", "4", "7", "6">>,
          <<"0", "0", "1", "4", "D", "1">>>>],
     [id |-> "pinEdimax", masks |-> <<
          <<"8", "0", "1", "F", "0", "2">>, <<"0", "0", "E", "0", "4", "C">>>>],
     [id |-> "pinThomson", masks |-> <<
          <<"0", "0", "2", "6", "2", "4">>, <<"4", "4", "3", "2", "C", "8">>,
          <<"8", "8", "F", "7", "C", "7">>, <<"C", "C", "0", "3", "F", "A">>>>],
     [id |-> "pinHG532x", masks |-> <<
          <<"0", "0", "6", "6", "4", "B">>, <<"0", "8", "6", "3", "6", "1">>,
          <<"0", "8", "7", "A", "4", "C">>, <<"0", "C", "9", "6", "B", "F">>,
          <<"1", "4", "B", "9", "6", "8">>, <<"2", "0", "0", "8", "E", "D">>,
          <<"2", "4", "6", "9", "A", "5">>, <<"3", "4", "6", "B", "D", "3">>,
          <<"7", "8", "6", "A", "8", "9">>, <<"8", "8", "E", "3", "A", "B">>,
          <<"9", "C", "C", "1", "7", "2">>, <<"A", "C", "E", "2", "1", "5">>,
          <<"D", "0", "7", "A", "B", "5">>, <<"C", "C", "A", "2", "2", "3">>,
          <<"E", "8", "C", "D", "2", "D">>, <<"F", "8", "0", "1", "1", "3">>,
          <<"F", "8", "3", "D", "F", "F">>>>],
     [id |-> "pinH108L", masks |-> <<
          <<"4", "C", "0", "9", "B", "4">>, <<"4", "C", "A", "C", "0", "A">>,
          <<"8", "4", "7", "4", "2", "A", "4">>, <<"9", "C", "D", "2", "4", "B">>,
          <<"B", "0", "7", "5", "D", "5">>, <<"C", "8", "6", "4", "C", "7">>,
          <<"D", "C", "0", "2", "8", "E">>, <<"F", "C", "C", "8", "9", "7">>>>],
     [id |-> "pinONO", masks |-> <<
          <<"5", "C", "3", "5", "3", "B">>, <<"D", "C", "5", "3", "7", "C">>>>]
    >>

\* the ids of self.algos, in the order of the dict
AlgoOrder ==
    <<"pin24", "pin28", "pin32", "pinDLink", "pinDLink1", "pinASUS", "pinAirocon",
      "pinEmpty", "pinCisco", "pinBrcm1", "pinBrcm2", "pinBrcm3", "pinBrcm4", "pinBrcm5",
      "pinBrcm6", "pinAirc1", "pinAirc2", "pinDSL2740R", "pinRealtek1", "pinRealtek2",
      "pinRealtek3", "pinUpvel", "pinUR814AC", "pinUR825AC", "pinOnlime", "pinEdimax",
      "pinThomson", "pinHG532x", "pinH108L", "pinONO">>

\* _suggest(mac): the ids of the rows one of whose prefixes mac starts with,
\* after mac.replace(':', '').upper()
suggest(mac) ==
    LET m == Upper(RemoveChar(mac, ":"))
        hit(row) == \E i \in DOMAIN row.masks : StartsWith(m, row.masks[i])
        rows == SelectSeq(SuggestTable, hit)
    IN  [i \in DOMAIN rows |-> rows[i].id]

\* a generate whose pinDLink1 increments the caller's MAC
MacAfterGenerateShared(algo, mac) ==
    IF algo = "pinDLink1" /\ NetworkAddress(mac) # ValueError
    THEN int2mac(IntAdd(NetworkAddress(mac).integer, 1))
    ELSE mac

\* what a call of generate(algo, mac) leaves of the caller's mac: line 323 binds
\* a new NetworkAddress to the local name, and pinDLink1 increments that object
MacAfterGenerate(algo, mac) == mac

\* the caller's mac after generate was called for the first n of the ids
RECURSIVE MacAfterEach(_, _, _)
MacAfterEach(ids, n, mac) ==
    IF n = 0 THEN mac
    ELSE MacAfterGenerate(ids[n], MacAfterEach(ids, n - 1, mac))

\* self.generate(ID, mac) for the ids in turn, keeping the results that are not
\* None: the items [id, pin]
GenerateEach(ids, mac) ==
    LET each == [i \in DOMAIN ids |->
                    [id |-> ids[i],
                     pin |-> generate(ids[i], MacAfterEach(ids, i - 1, mac))]]
    IN  SelectSeq(each, LAMBDA item : item.pin # None)

Pins(items) == [i \in DOMAIN items |-> items[i].pin]

\* the ids getAll and getList go through
ListedIds(get_static) ==
    SelectSeq(AlgoOrder, LAMBDA id : get_static \/ id \notin DOMAIN StaticPins)

\* getAll(mac, get_static): the items (their display names are left out)
getAll(mac, get_static) == GenerateEach(ListedIds(get_static), mac)

\* getList(mac, get_static)
getList(mac, get_static) == Pins(GenerateEach(ListedIds(get_static), mac))

\* getSuggested(mac): the items (their display names are left out)
getSuggested(mac) == GenerateEach(suggest(mac), mac)

\* getSuggestedList(mac)
getSuggestedList(mac) == Pins(GenerateEach(suggest(mac), mac))

\* a getLikely that returns the last suggested PIN
getLikelyLast(mac) ==
    LET res == getSuggestedList(mac)
    IN  IF res # <<>> THEN res[Len(res)] ELSE None

\* getLikely(mac)
getLikely(mac) ==
    LET res == getSuggestedList(mac)
    IN  IF res # <<>> THEN res[1] ELSE None

(***************************************************************************)
(* PixiewpsData, ConnectionStatus, BruteforceStatus                        *)
(***************************************************************************)
\* a hex payload is kept as its length in characters; '' has length 0
PixiewpsData ==
    [pke |-> 0, pkr |-> 0, e_hash1 |-> 0, e_hash2 |-> 0, authkey |-> 0, e_nonce |-> 0]

\* a test that leaves e_hash2 out
got_allButHash2(px) ==
    /\ px.pke # 0 /\ px.pkr # 0 /\ px.e_nonce # 0
    /\ px.authkey # 0 /\ px.e_hash1 # 0

\* got_all(): every field is a non-empty string
got_all(px) ==
    /\ px.pke # 0 /\ px.pkr # 0 /\ px.e_nonce # 0
    /\ px.authkey # 0 /\ px.e_hash1 # 0 /\ px.e_hash2 # 0

ConnectionStatus == [status |-> "", last_m_message |-> 0, essid |-> "", wpa_psk |-> ""]

isFirstHalfValid(cs) == cs.last_m_message > 5

StatisticsPeriod == 5

BruteforceStatus == [mask |-> <<>>, counter |-> 0]

\* registerAttempt(mask): the mask, and the counter that triggers display_status
registerAttempt(bf, mask) ==
    [mask |-> mask,
     counter |-> IF bf.counter + 1 = StatisticsPeriod THEN 0 ELSE bf.counter + 1]

(***************************************************************************)
(* Trace lines and EnhancedCompanion.__handle_wpas                         *)
(***************************************************************************)
\* A trace line is what the classifier can tell about it: whether it starts
\* with 'WPS: ', which of the substrings it tests the line holds, the text
\* after 'Message M' / 'Received M' as a number (NotANumber when int() raises)
\* and the length of the hex payload get_hex extracts.
NotANumber == -1

EOF == [eof |-> TRUE, wps |-> FALSE, has |-> {}, num |-> NotANumber, hex |-> 0]

Line(wps, has, num, hex) == [eof |-> FALSE, wps |-> wps, has |-> has, num |-> num, hex |-> hex]

LineBuilding(n) == Line(TRUE, {"Building Message M"}, n, 0)
LineReceived(n) == Line(TRUE, {"Received M"}, n, 0)
LineNack == Line(TRUE, {"Received WSC_NACK"}, NotANumber, 0)
LineNetworkKey == Line(TRUE, {"Network Key", "hexdump"}, NotANumber, 16)
LineScanning == Line(FALSE, {": State: ", "-> SCANNING"}, NotANumber, 0)
LineWpsFail == Line(FALSE, {"WPS-FAIL"}, NotANumber, 0)
LineOther == Line(FALSE, {}, NotANumber, 0)

\* the handshake fields in the order of the classifier's branches, the text
\* that tags the hexdump line of each, and the length in hex digits the
\* branch asserts (16*2, 192*2, 32*2)
PixieFields == <<"e_nonce", "pkr", "pke", "authkey", "e_hash1", "e_hash2">>

PixieTags ==
    [e_nonce |-> "Enrollee Nonce", pkr |-> "DH own Public Key",
     pke |-> "DH peer Public Key", authkey |-> "AuthKey",
     e_hash1 |-> "E-Hash1", e_hash2 |-> "E-Hash2"]

HexLength ==
    [e_nonce |-> 32, pkr |-> 384, pke |-> 384, authkey |-> 64, e_hash1 |-> 64, e_hash2 |-> 64]

\* the hexdump line of a field with a payload of hex digits
LinePixie(field, hex) == Line(TRUE, {PixieTags[field], "hexdump"}, NotANumber, hex)

\* the passphrase bytes.fromhex(..).decode(..) yields, kept as a token
DecodedPsk(line) == "psk"

\* the quoted network name of a line that holds 'SSID', kept as a token
DecodedEssid(line) == "essid"

\* a hexdump branch whose assert never fails
PixieFieldUnchecked(cs, px, line, field, want) ==
    [res |-> TRUE, cs |-> cs, px |-> [px EXCEPT ![field] = line.hex]]

\* the hexdump branches: field = get_hex(line); assert len(field) == want
PixieField(cs, px, line, field, want) ==
    [res |-> line.hex = want, cs |-> cs, px |-> [px EXCEPT ![field] = line.hex]]

\* a WPS-FAIL test that does not look at the status
WpsFailAlways(cs, line) == "WPS-FAIL" \in line.has

\* ('WPS-FAIL' in line) and (self.connection_status.status != '')
WpsFailApplies(cs, line) == "WPS-FAIL" \in line.has /\ cs.status # ""

\* an end of stream that clears the status
StreamClosedClears(cs, px) == [res |-> FALSE, cs |-> ConnectionStatus, px |-> px]

\* if not line: self.wpas.wait(); return False
StreamClosed(cs, px) == [res |-> FALSE, cs |-> cs, px |-> px]

\* a line without a rule that ends the loop
NoRuleStops(cs, px) == [res |-> FALSE, cs |-> cs, px |-> px]

\* no branch assigns anything: return True
NoRule(cs, px) == [res |-> TRUE, cs |-> cs, px |-> px]

\* one call of __handle_wpas on the next line of the trace: the value returned and
\* the status and handshake data it leaves; an exception raised on the way is
\* caught, and False returned with what was assigned before it
handle_wpas(cs, px, line) ==
    LET same == NoRule(cs, px)
        setStatus(st) == [res |-> TRUE, cs |-> [cs EXCEPT !.status = st], px |-> px]
        setMessage == IF line.num = NotANumber
                      THEN [res |-> FALSE, cs |-> cs, px |-> px]
                      ELSE [res |-> TRUE, cs |-> [cs EXCEPT !.last_m_message = line.num],
                            px |-> px]
        hexdump == "hexdump" \in line.has
        withEssid(st) ==
            [res |-> TRUE,
             cs |-> [cs EXCEPT !.status = st,
                               !.essid = IF "SSID" \in line.has
                                         THEN DecodedEssid(line) ELSE cs.essid],
             px |-> px]
    IN  IF line.eof THEN StreamClosed(cs, px)
        ELSE IF line.wps THEN
            IF "Building Message M" \in line.has THEN setMessage
            ELSE IF "Received M" \in line.has THEN setMessage
            ELSE IF "Received WSC_NACK" \in line.has THEN setStatus("WSC_NACK")
            ELSE IF "Enrollee Nonce" \in line.has /\ hexdump
                THEN PixieField(cs, px, line, "e_nonce", 32)
            ELSE IF "DH own Public Key" \in line.has /\ hexdump
                THEN PixieField(cs, px, line, "pkr", 384)
            ELSE IF "DH peer Public Key" \in line.has /\ hexdump
                THEN PixieField(cs, px, line, "pke", 384)
            ELSE IF "AuthKey" \in line.has /\ hexdump
                THEN PixieField(cs, px, line, "authkey", 64)
            ELSE IF "E-Hash1" \in line.has /\ hexdump
                THEN PixieField(cs, px, line, "e_hash1", 64)
            ELSE IF "E-Hash2" \in line.has /\ hexdump
                THEN PixieField(cs, px, line, "e_hash2", 64)
            ELSE IF "Network Key" \in line.has /\ hexdump
                THEN [res |-> line.hex % 2 = 0,
                      cs |-> [cs EXCEPT !.status = "GOT_PSK",
                                        !.wpa_psk = IF line.hex % 2 = 0
                                                    THEN DecodedPsk(line) ELSE cs.wpa_psk],
                      px |-> px]
            ELSE same
        ELSE IF ": State: " \in line.has THEN
            IF "-> SCANNING" \in line.has THEN setStatus("scanning") ELSE same
        ELSE IF WpsFailApplies(cs, line) THEN setStatus("WPS_FAIL")
        ELSE IF "Trying to authenticate with" \in line.has THEN withEssid("authenticating")
        ELSE IF "Authentication response" \in line.has THEN same
        ELSE IF "Trying to associate with" \in line.has THEN withEssid("associating")
        ELSE IF "Associated with" \in line.has /\ "interface" \in line.has THEN same
        ELSE IF "EAPOL: txStart" \in line.has THEN setStatus("eapol_start")
        ELSE same

\* the loop of an attempt left running after WPS_FAIL
TerminalStatusWithoutFail == {"WSC_NACK", "GOT_PSK"}

\* the statuses that end the loop of __wps_connection
TerminalStatus == {"WSC_NACK", "GOT_PSK", "WPS_FAIL"}

(***************************************************************************)
(* The control channel                                                     *)
(***************************************************************************)
\* r for which 'OK' in r
RECURSIVE Contains(_, _)
Contains(r, what) ==
    IF Len(r) < Len(what) THEN FALSE
    ELSE StartsWith(r, what) \/ Contains(Tail(r), what)

ReplyOk == <<"O", "K", "\n">>
ReplyFail == <<"F", "A", "I", "L", "\n">>
ReplyUnknown == <<"U", "N", "K", "N", "O", "W", "N", " ", "C", "O", "M", "M", "A", "N", "D", "\n">>
ReplyBusy == <<"F", "A", "I", "L", "-", "B", "U", "S", "Y", "\n">>

\* a reply that holds 'OK' but does not begin with it
ReplyNotOk == <<"N", "O", "T", "-", "O", "K", "\n">>

\* sendAndReceive raised
CtrlError == <<"raised">>

(***************************************************************************)
(* The PINs of the bruteforce phases                                       *)
(***************************************************************************)
FirstHalfLimit == 10000

SecondHalfLimit == 1000

\* '{}000{}'.format(f_half, checksum(int(f_half + '000')))
FirstHalfPin(fh) ==
    fh \o <<"0", "0", "0">> \o IntToStr(checksum(StrToInt(fh \o <<"0", "0", "0">>)))

\* a second-half PIN that carries the check digit of the first half alone
SecondHalfPinOfFirstHalf(fh, sh) ==
    fh \o sh \o IntToStr(checksum(StrToInt(fh \o <<"0", "0", "0">>)))

\* '{}{}{}'.format(f_half, s_half, checksum(int(f_half + s_half)))
SecondHalfPin(fh, sh) == fh \o sh \o IntToStr(checksum(StrToInt(fh \o sh)))

\* an advance that steps over every other first half
NextFirstHalfByTwo(fh) == ZFill(IntToStr(StrToInt(fh) + 2), 4)

\* str(int(f_half) + 1).zfill(4)
NextFirstHalf(fh) == ZFill(IntToStr(StrToInt(fh) + 1), 4)

\* an advance that steps over every other second half
NextSecondHalfByTwo(sh) == ZFill(IntToStr(StrToInt(sh) + 2), 3)

\* str(int(s_half) + 1).zfill(3)
NextSecondHalf(sh) == ZFill(IntToStr(StrToInt(sh) + 1), 3)

\* start_pin[:7]
Prefix(str, n) == SubSeq(str, 1, IF Len(str) < n THEN Len(str) ELSE n)

(***************************************************************************)
(* State                                                                   *)
(***************************************************************************)
VARIABLES
    lib,                \* the last call made on the PIN library: its arguments and result
    single,             \* the running single_connection frame and the pixiewps runs so far
    pc,                 \* where the process is: main, loop, pump, decide, finish, done, exited
    run,                \* which execution of the program this is (1 = the first)
    args,               \* the command line: [start_pin, delay]
    env,                \* the surroundings: the access point and whether the operator signals
    sessionFile,        \* sessions_dir/<BSSID>.run: [exists, content]
    phase,              \* 1: __first_half_bruteforce, 2: __second_half_bruteforce
    f_half,
    s_half,
    delay,              \* the delay parameter of the running bruteforce frame
    bruteforce,         \* self.bruteforce: [mask, counter]
    connection_status,  \* self.connection_status
    pixie_creds,        \* self.pixie_creds
    pin,                \* the PIN of the running (or last) attempt
    trace,              \* the trace lines __handle_wpas consumed in this attempt
    inflight,           \* a WPS_REG was accepted and no WPS_CANCEL has been sent since
    cancels,            \* WPS_CANCEL commands sent during the running (or last) attempt
    log1,               \* phase-1 attempts of this execution: [pin, end]
    log2,               \* phase-2 attempts of this execution: [pin, end]; outside the
                        \* phases, the attempts of single_connection
    start,              \* the mask this execution started from
    prev,               \* the previous execution: [interrupted, phase, start, completed, mask]
    attempts            \* attempts made so far, over all executions

engine == <<single, pc, run, args, env, sessionFile, phase, f_half, s_half, delay, bruteforce,
            connection_status, pixie_creds, pin, trace, inflight, cancels,
            log1, log2, start, prev, attempts>>

vars == <<lib, engine>>

(***************************************************************************)
(* Calls on the PIN library                                                *)
(***************************************************************************)
\* digits 0..MaxDigit and 9 are used to build the 7-digit checksum arguments
MaxDigit == 2

\* last octets 0..MaxNic of the MAC arguments
MaxNic == 1

DigitSet == (0..MaxDigit) \cup {9}

RECURSIVE DigitsToInt(_)
DigitsToInt(ds) ==
    IF Len(ds) = 0 THEN 0
    ELSE (10 * DigitsToInt(SubSeq(ds, 1, Len(ds) - 1))) + ds[Len(ds)]

ChecksumInputs == {DigitsToInt(ds) : ds \in [1..7 -> DigitSet]}

MacOctets ==
    {<<20, 214, 77, 0, 0, n>> : n \in 0..MaxNic}
    \cup {<<0, 0, 0, 0, 0, 0>>, <<255, 255, 255, 255, 255, 255>>,
          <<170, 187, 204, 9, 255, 255>>}

HexPair(b, lower) ==
    LET tab == IF lower THEN HexLower ELSE HexUpper
    IN  <<tab[(b \div 16) + 1], tab[(b % 16) + 1]>>

\* the MAC string of six octets, written with delimiter d
FormatMac(o, d, lower) ==
    HexPair(o[1], lower) \o <<d>> \o HexPair(o[2], lower) \o <<d>>
    \o HexPair(o[3], lower) \o <<d>> \o HexPair(o[4], lower) \o <<d>>
    \o HexPair(o[5], lower) \o <<d>> \o HexPair(o[6], lower)

Delimiters == {":", "-", "."}

MacInputs == {FormatMac(o, d, l) : o \in MacOctets, d \in Delimiters, l \in BOOLEAN}

AlgoInputs == algos \cup {"pinUnknown"}

LibIdle == [op |-> "none"]

\* one call is made on a fresh library object
CallChecksum(p) ==
    /\ lib = LibIdle
    /\ UNCHANGED engine
    /\ lib' = [op |-> "checksum", pin |-> p, result |-> checksum(p)]

CallGenerate(a, m) ==
    /\ lib = LibIdle
    /\ UNCHANGED engine
    /\ lib' = [op |-> "generate", algo |-> a, mac |-> m, result |-> generate(a, m),
               raised |-> PropagatedByGenerate(RaisedInGenerate(a, m))]

\* no single_connection frame: the arguments of a frame (pin, pixiemode,
\* store_pin_on_fail), the value it returned ("" while it runs), for every run
\* of pixiewps the handshake data the command was built from, and the PIN in
\* pixiewps_dir/<BSSID>.run (None when there is no such file); the credentials
\* printed, the rows written to reports_dir/stored.*, and whether __saveResult
\* logged a failure
NoSingle ==
    [pin |-> None, pixiemode |-> FALSE, store_pin_on_fail |-> FALSE, returned |-> "",
     tools |-> <<>>, saved |-> None, shown |-> <<>>, report |-> <<>>, save_failed |-> FALSE]

\* the process has not been started
EngineIdle ==
    /\ single = NoSingle
    /\ pc = "off"
    /\ run = 0
    /\ args = [start_pin |-> None, delay |-> FALSE]
    /\ env = [mode |-> "none", fh |-> <<>>, sh |-> <<>>, signals |-> FALSE,
              resumes |-> FALSE]
    /\ sessionFile = [exists |-> FALSE, content |-> <<>>]
    /\ phase = 0
    /\ f_half = <<>>
    /\ s_half = <<>>
    /\ delay = FALSE
    /\ bruteforce = BruteforceStatus
    /\ connection_status = ConnectionStatus
    /\ pixie_creds = PixiewpsData
    /\ pin = <<>>
    /\ trace = <<>>
    /\ inflight = FALSE
    /\ cancels = 0
    /\ log1 = <<>>
    /\ log2 = <<>>
    /\ start = <<>>
    /\ prev = [interrupted |-> FALSE, phase |-> 0, start |-> <<>>, completed |-> 0,
               mask |-> <<>>]
    /\ attempts = 0

InitPin == lib = LibIdle /\ EngineIdle

NextPin ==
    /\ lib = LibIdle
    /\ \/ \E p \in ChecksumInputs : CallChecksum(p)
       \/ \E a \in AlgoInputs, m \in MacInputs : CallGenerate(a, m)

SpecPin == InitPin /\ [][NextPin]_vars

(***************************************************************************)
(* A caller making several calls on one EnhancedWPSpin object              *)
(***************************************************************************)
\* calls made by one caller with the MAC it holds
MaxCalls == 2

CallerOctets ==
    {<<20, 214, 77, 0, 0, 1>>, <<228, 111, 19, 0, 0, 1>>, <<170, 187, 204, 9, 255, 255>>,
     <<212, 191, 127, 96, 0, 0>>, <<16, 98, 235, 0, 0, 0>>, <<0, 20, 209, 0, 0, 2>>,
     <<255, 255, 255, 255, 255, 255>>}

\* every MAC with ':' and in upper case, one of them with each delimiter and case
CallerMacs ==
    {FormatMac(o, ":", FALSE) : o \in CallerOctets}
    \cup {FormatMac(<<20, 214, 77, 0, 0, 1>>, d, l) : d \in Delimiters, l \in BOOLEAN}

CallerAlgos == {"pin24", "pinDLink1", "pinEmpty", "pinUnknown"}

\* the caller takes a MAC and a fresh EnhancedWPSpin()
TakeMac(m) ==
    /\ lib = LibIdle
    /\ UNCHANGED engine
    /\ lib' = [op |-> "caller", mac0 |-> m, mac |-> m, hist |-> <<>>]

Calling == lib # LibIdle /\ lib.op = "caller" /\ Len(lib.hist) < MaxCalls

\* one more call: its name, its argument beside the MAC, its result, and the
\* caller's MAC after it
Called(fn, arg, result, mac) ==
    [lib EXCEPT !.hist = Append(@, [fn |-> fn, arg |-> arg, result |-> result]),
                !.mac = mac]

DoGenerate(a) ==
    /\ Calling
    /\ UNCHANGED engine
    /\ lib' = Called("generate", a, generate(a, lib.mac), MacAfterGenerate(a, lib.mac))

DoGetAll(get_static) ==
    /\ Calling
    /\ UNCHANGED engine
    /\ lib' = Called("getAll", get_static, getAll(lib.mac, get_static),
                     MacAfterEach(ListedIds(get_static), Len(ListedIds(get_static)), lib.mac))

DoGetList(get_static) ==
    /\ Calling
    /\ UNCHANGED engine
    /\ lib' = Called("getList", get_static, getList(lib.mac, get_static),
                     MacAfterEach(ListedIds(get_static), Len(ListedIds(get_static)), lib.mac))

DoGetSuggested ==
    /\ Calling
    /\ UNCHANGED engine
    /\ lib' = Called("getSuggested", "", getSuggested(lib.mac),
                     MacAfterEach(suggest(lib.mac), Len(suggest(lib.mac)), lib.mac))

DoGetLikely ==
    /\ Calling
    /\ UNCHANGED engine
    /\ lib' = Called("getLikely", "", getLikely(lib.mac),
                     MacAfterEach(suggest(lib.mac), Len(suggest(lib.mac)), lib.mac))

NextCaller ==
    \/ \E m \in CallerMacs : TakeMac(m)
    \/ \E a \in CallerAlgos : DoGenerate(a)
    \/ \E g \in BOOLEAN : DoGetAll(g)
    \/ \E g \in BOOLEAN : DoGetList(g)
    \/ DoGetSuggested
    \/ DoGetLikely

SpecCaller == InitPin /\ [][NextCaller]_vars

(***************************************************************************)
(* Calls on NetworkAddress                                                 *)
(***************************************************************************)
\* strings that are not a 6-octet MAC, built from the octets o
MalformedMacs(o, lower) ==
    LET base == FormatMac(o, ":", lower)
    IN  {SubSeq(base, 1, MacStrLen - 3),
         base \o <<":">> \o HexPair(0, lower),
         base \o <<":">>,
         base \o <<"\n">>,
         base \o <<" ">>,
         <<" ">> \o base,
         [base EXCEPT ![1] = "G"],
         [base EXCEPT ![3] = " "],
         RemoveChar(base, ":")}

ParseInputs ==
    MacInputs \cup {<<>>}
    \cup UNION {MalformedMacs(o, l) : o \in MacOctets, l \in BOOLEAN}

\* MAC integers of 0..2^48-1, as their two 24-bit halves
IntegerInputs ==
    {[hi |-> h, lo |-> l] :
        h \in {0, 1, 1365581, Half - 1},
        l \in (0..MaxNic) \cup {15, 16, 255, 256, 65536, Half - 1}}

\* NetworkAddress(s) is constructed from a string
CallParse(s) ==
    /\ lib = LibIdle
    /\ UNCHANGED engine
    /\ lib' = [op |-> "parse", arg |-> s, first |-> NetworkAddress(s),
               result |-> NetworkAddress(s), ops |-> 0]

\* NetworkAddress(n) is constructed from an integer
CallFromInt(n) ==
    /\ lib = LibIdle
    /\ UNCHANGED engine
    /\ lib' = [op |-> "fromint", arg |-> n, first |-> NetworkAddressInt(n),
               result |-> NetworkAddressInt(n), ops |-> 0]

\* NetworkAddress(str(a)) for the address a constructed before
Reparse ==
    /\ lib # LibIdle
    /\ lib.op \in {"parse", "fromint"}
    /\ lib.result # ValueError
    /\ UNCHANGED engine
    /\ lib' = [op |-> IF lib.op = "parse" THEN "reparse" ELSE "reparseint",
               arg |-> lib.arg, first |-> lib.result,
               result |-> NetworkAddress(lib.result.string)]

\* assignments and += / -= made on one address object
MaxOps == 2

\* values assigned to the string form
StringValues ==
    {FormatMac(<<170, 187, 204, 9, 255, 255>>, d, l) : d \in {":", "-"}, l \in BOOLEAN}
    \cup {<<>>}

\* values assigned to the integer form: inside 0..2^48-1, below it and above it
IntegerValues ==
    {[hi |-> 0, lo |-> 0], [hi |-> Half - 1, lo |-> Half - 1],
     [hi |-> -1, lo |-> Half - 1], [hi |-> Half, lo |-> 0]}

\* the integer added or subtracted
Increments == {1, Half - 1}

\* an address object exists in lib and may still be operated on
HasAddress ==
    /\ lib # LibIdle
    /\ lib.op \in {"parse", "fromint", "setstring", "setinteger", "iadd", "isub"}
    /\ lib.result # ValueError
    /\ lib.ops < MaxOps

Mutated(name, a, r, raised) ==
    [op |-> name, arg |-> a, first |-> lib.result, result |-> r, raised |-> raised,
     ops |-> lib.ops + 1]

\* a.string = v
AssignString(v) ==
    /\ HasAddress
    /\ UNCHANGED engine
    /\ lib' = Mutated("setstring", v, SetString(lib.result, v).obj,
                      SetString(lib.result, v).raised)

\* a.integer = n
AssignInteger(n) ==
    /\ HasAddress
    /\ UNCHANGED engine
    /\ lib' = Mutated("setinteger", n, SetInteger(lib.result, n), FALSE)

\* a += k
IAdd(k) ==
    /\ HasAddress
    /\ UNCHANGED engine
    /\ lib' = Mutated("iadd", k,
                      SetInteger(lib.result, IntAdd(lib.result.integer, k)), FALSE)

\* a -= k
ISub(k) ==
    /\ HasAddress
    /\ UNCHANGED engine
    /\ lib' = Mutated("isub", k,
                      SetInteger(lib.result, IntAdd(lib.result.integer, -k)), FALSE)

NextMac ==
    \/ \E s \in ParseInputs : CallParse(s)
    \/ \E n \in IntegerInputs : CallFromInt(n)
    \/ Reparse
    \/ \E v \in StringValues : AssignString(v)
    \/ \E n \in IntegerValues : AssignInteger(n)
    \/ \E k \in Increments : IAdd(k)
    \/ \E k \in Increments : ISub(k)

SpecMac == InitPin /\ [][NextMac]_vars

(***************************************************************************)
(* The surroundings of a bruteforce run                                    *)
(***************************************************************************)
\* attempts a run against an arbitrary access point may make, over all executions
MaxAttempts == 3

\* trace lines an arbitrary access point may produce in one attempt
MaxLines == 2

\* executions of the program (the first, then resumed ones)
MaxRuns == 2

Str4(n) == ZFill(IntToStr(n), 4)

Str3(n) == ZFill(IntToStr(n), 3)

\* A faithful access point holds a PIN and answers every attempt as the WPS
\* exchange does: a wrong first half is refused after M4, a wrong second half
\* after M6, and the right PIN yields M7 and the network key.
FaithfulTrace(ap, p) ==
    IF SubSeq(p, 1, 4) # ap.fh THEN <<LineBuilding(4), LineNack>>
    ELSE IF SubSeq(p, 5, 7) # ap.sh
         THEN <<LineReceived(5), LineBuilding(6), LineNack>>
         ELSE <<LineReceived(5), LineBuilding(6), LineReceived(7), LineNetworkKey>>

\* what an arbitrary supplicant trace may hold
AnyLines ==
    {LineReceived(5), LineBuilding(6), LineReceived(7), LineNack, LineNetworkKey,
     LineScanning, LineWpsFail, LineReceived(NotANumber), EOF}

\* lines for which the classifier has no rule: a line of another program, a
\* 'WPS: ' line and a ': State: ' line without a known text, a field name
\* without 'hexdump'
OtherLines ==
    {LineOther, Line(TRUE, {}, NotANumber, 0), Line(FALSE, {": State: "}, NotANumber, 0),
     Line(TRUE, {"E-Hash1"}, NotANumber, 0)}

\* the place in PixieFields of the field a line carries, 0 when it carries none
FieldIndex(line) ==
    IF \E j \in DOMAIN PixieFields : PixieTags[PixieFields[j]] \in line.has
    THEN CHOOSE j \in DOMAIN PixieFields : PixieTags[PixieFields[j]] \in line.has
    ELSE 0

\* A handshake trace: the supplicant dumps the six fields in protocol order; any
\* of them may be missing and any may come one byte short; WSC_NACK or the end
\* of the stream may come at any point.
PixieLines ==
    LET last == IF trace = <<>> THEN 0 ELSE FieldIndex(trace[Len(trace)])
    IN  UNION {{LinePixie(PixieFields[j], HexLength[PixieFields[j]]),
                LinePixie(PixieFields[j], HexLength[PixieFields[j]] - 2)} :
                  j \in (last + 1)..Len(PixieFields)}
        \cup {LineNack, EOF}

\* the lines the trace stream may deliver next
NextLines ==
    IF pc # "pump" THEN {}
    ELSE IF env.mode = "faithful"
    THEN {FaithfulTrace(env, pin)[Len(trace) + 1]}
    ELSE IF env.mode = "pixie" THEN PixieLines
    ELSE IF env.mode = "single" THEN PixieLines \cup {LineNetworkKey}
    ELSE IF env.mode = "stalling"
    THEN IF Len(trace) < env.lines THEN AnyLines \cup OtherLines ELSE {}
    ELSE IF Len(trace) < MaxLines THEN AnyLines ELSE {EOF}

\* the replies the control channel may give to WPS_REG
RegReplies ==
    IF env.mode = "faithful" THEN {ReplyOk}
    ELSE IF env.mode = "replies" THEN {env.reply}
    ELSE IF env.mode = "stalling"
    THEN IF pc = "recv" /\ attempts <= env.answers
         THEN {ReplyOk, ReplyFail, ReplyUnknown, CtrlError} ELSE {}
    ELSE {ReplyOk, ReplyFail, ReplyUnknown, CtrlError}

Faithful(fh, sh, sig, res) ==
    [mode |-> "faithful", fh |-> fh, sh |-> sh, signals |-> sig, resumes |-> res]

Arbitrary == [mode |-> "any", fh |-> <<>>, sh |-> <<>>, signals |-> TRUE, resumes |-> FALSE]

Pixie == [mode |-> "pixie", fh |-> <<>>, sh |-> <<>>, signals |-> TRUE, resumes |-> FALSE]

\* a control channel that gives the same reply to every WPS_REG
Replies(r) ==
    [mode |-> "replies", fh |-> <<>>, sh |-> <<>>, signals |-> TRUE, resumes |-> FALSE,
     reply |-> r]

\* the start of an execution: the access point, the command line, the session file
Scenario(e, sp, d, f) == [env |-> e, start_pin |-> sp, delay |-> d, file |-> f]

\* runs against a faithful access point: one that holds 1234 002x and is left to
\* run undisturbed, and short ones the operator may interrupt and start again
FaithfulScenarios ==
    {Scenario(Faithful(Str4(1234), Str3(2), FALSE, FALSE), None, FALSE, <<>>)}
    \cup {Scenario(Faithful(Str4(2), Str3(sh), TRUE, TRUE), None, d, <<>>) :
             sh \in 0..2, d \in BOOLEAN}
    \cup {Scenario(Faithful(Str4(2), Str3(1), TRUE, TRUE), Str4(9998), TRUE, <<>>),
          Scenario(Faithful(Str4(1), Str3(2), TRUE, TRUE), Str4(1) \o Str3(1), TRUE, <<>>)}

\* runs against an access point and a supplicant that may answer anything
ArbitraryScenarios ==
    {Scenario(Arbitrary, sp, TRUE, <<>>) :
        sp \in {None, Str4(9999), Str4(1) \o Str3(999), Str4(1) \o Str3(998) \o <<"5">>}}
    \cup {Scenario(Arbitrary, None, TRUE, Str4(7))}

\* runs whose attempts read handshake traces
PixieScenarios == {Scenario(Pixie, sp, FALSE, <<>>) : sp \in {None, Str4(9999)}}

\* runs against a control channel with a fixed reply
ReplyScenarios ==
    {Scenario(Replies(r), sp, FALSE, <<>>) :
        r \in {ReplyOk, ReplyFail, ReplyBusy, ReplyUnknown, ReplyNotOk},
        sp \in {None, Str4(9999)}}

(***************************************************************************)
(* main, smart_bruteforce and the two phases                               *)
(***************************************************************************)
NoPrev == [interrupted |-> FALSE, phase |-> 0, start |-> <<>>, completed |-> 0, mask |-> <<>>]

\* the state when main calls smart_bruteforce
Started(scenarios) ==
    /\ lib = LibIdle
    /\ \E sc \in scenarios :
          /\ env = sc.env
          /\ args = [start_pin |-> sc.start_pin, delay |-> sc.delay]
          /\ sessionFile = [exists |-> sc.file # <<>>, content |-> sc.file]
    /\ single = NoSingle
    /\ pc = "main"
    /\ run = 1
    /\ phase = 0
    /\ f_half = <<>>
    /\ s_half = <<>>
    /\ delay = FALSE
    /\ bruteforce = BruteforceStatus
    /\ connection_status = ConnectionStatus
    /\ pixie_creds = PixiewpsData
    /\ pin = <<>>
    /\ trace = <<>>
    /\ inflight = FALSE
    /\ cancels = 0
    /\ log1 = <<>>
    /\ log2 = <<>>
    /\ start = <<>>
    /\ prev = NoPrev
    /\ attempts = 0

Init == Started(FaithfulScenarios)

InitAny == Started(ArbitraryScenarios)

InitPixie == Started(PixieScenarios)

InitReply == Started(ReplyScenarios)

\* smart_bruteforce up to the call of a phase: the mask is start_pin[:7], or the
\* session file's line when the operator agrees to restore it, or '0000'
SmartBruteforceStart(restore) ==
    /\ pc = "main"
    /\ LET sp == args.start_pin
           mask == IF sp = None \/ Len(sp) < 4
                   THEN IF sessionFile.exists /\ restore
                        THEN sessionFile.content ELSE Str4(0)
                   ELSE Prefix(sp, 7)
       IN  /\ bruteforce' = [BruteforceStatus EXCEPT !.mask = mask]
           /\ start' = mask
           /\ IF Len(mask) = 4
              THEN phase' = 1 /\ f_half' = mask /\ s_half' = <<>> /\ pc' = "loop"
              ELSE IF Len(mask) = 7
              THEN /\ phase' = 2 /\ f_half' = SubSeq(mask, 1, 4)
                   /\ s_half' = SubSeq(mask, 5, 7) /\ pc' = "loop"
              ELSE phase' = 0 /\ f_half' = <<>> /\ s_half' = <<>> /\ pc' = "finish"
    /\ delay' = args.delay
    /\ UNCHANGED <<lib, single, run, args, env, sessionFile, connection_status, pixie_creds,
                   pin, trace, inflight, cancels, log1, log2, prev, attempts>>

InRange == IF phase = 1 THEN StrToInt(f_half) < FirstHalfLimit
           ELSE StrToInt(s_half) < SecondHalfLimit

Logged(entry) ==
    IF phase = 1 THEN log1' = Append(log1, entry) /\ log2' = log2
    ELSE log2' = Append(log2, entry) /\ log1' = log1

\* the while test of a phase, and for a candidate in range single_connection and
\* __wps_connection up to the reply to WPS_REG
Submit(r) ==
    /\ pc = "loop"
    /\ InRange
    /\ env.mode = "faithful" \/ attempts < MaxAttempts
    /\ LET p == IF phase = 1 THEN FirstHalfPin(f_half) ELSE SecondHalfPin(f_half, s_half)
       IN  /\ pin' = p
           /\ pixie_creds' = PixiewpsData
           /\ trace' = <<>>
           /\ cancels' = 0
           /\ attempts' = attempts + 1
           /\ IF r = CtrlError
              THEN /\ connection_status' = ConnectionStatus
                   /\ inflight' = inflight
                   /\ Logged([pin |-> p, end |-> "ctrl_error"])
                   /\ pc' = "decide"
              ELSE IF ~Contains(r, <<"O", "K">>)
              THEN /\ connection_status' = [ConnectionStatus EXCEPT !.status = "WPS_FAIL"]
                   /\ inflight' = inflight
                   /\ Logged([pin |-> p, end |-> "rejected"])
                   /\ pc' = "decide"
              ELSE /\ connection_status' = ConnectionStatus
                   /\ inflight' = TRUE
                   /\ Logged([pin |-> p, end |-> "inflight"])
                   /\ pc' = "pump"
    /\ UNCHANGED <<lib, single, run, args, env, sessionFile, phase, f_half, s_half, delay,
                   bruteforce, start, prev>>

\* the while test of a phase fails: the phase returns False and smart_bruteforce
\* goes on to its raise KeyboardInterrupt
Exhausted ==
    /\ pc = "loop"
    /\ ~InRange
    /\ pc' = "finish"
    /\ UNCHANGED <<lib, single, run, args, env, sessionFile, phase, f_half, s_half, delay,
                   bruteforce, connection_status, pixie_creds, pin, trace, inflight,
                   cancels, log1, log2, start, prev, attempts>>

\* how an attempt ended: with a verdict on the PIN (WSC_NACK or GOT_PSK), with
\* WPS_FAIL, by the close of the stream or by an error in the classifier
EndOf(r, line) ==
    IF r.res /\ r.cs.status = "WPS_FAIL" THEN "WPS_FAIL"
    ELSE IF r.res THEN "verdict"
    ELSE IF line.eof THEN "closed"
    ELSE "error"

SetEnd(e) ==
    IF phase = 1
    THEN log1' = [log1 EXCEPT ![Len(log1)].end = e] /\ log2' = log2
    ELSE log2' = [log2 EXCEPT ![Len(log2)].end = e] /\ log1' = log1

\* one turn of the while True loop of __wps_connection; when the loop breaks,
\* sendOnly('WPS_CANCEL'), which is taken not to raise, and the return to the phase
Pump(line) ==
    /\ pc = "pump"
    /\ LET r == handle_wpas(connection_status, pixie_creds, line)
       IN  /\ connection_status' = r.cs
           /\ pixie_creds' = r.px
           /\ trace' = Append(trace, line)
           /\ IF r.res /\ r.cs.status \notin TerminalStatus
              THEN /\ pc' = "pump"
                   /\ UNCHANGED <<inflight, cancels, log1, log2>>
              ELSE /\ pc' = "decide"
                   /\ SetEnd(EndOf(r, line))
                   /\ inflight' = FALSE
                   /\ cancels' = cancels + 1
    /\ UNCHANGED <<lib, single, run, args, env, sessionFile, phase, f_half, s_half, delay,
                   bruteforce, pin, start, prev, attempts>>

\* __first_half_bruteforce after single_connection returned
DecideFirstHalf ==
    IF isFirstHalfValid(connection_status)
    THEN \* return f_half, and smart_bruteforce enters phase 2 unless GOT_PSK
         /\ IF connection_status.status # "GOT_PSK"
            THEN phase' = 2 /\ s_half' = Str3(1) /\ delay' = args.delay /\ pc' = "loop"
            ELSE phase' = phase /\ s_half' = s_half /\ delay' = delay /\ pc' = "finish"
         /\ UNCHANGED <<f_half, bruteforce>>
    ELSE IF connection_status.status = "WPS_FAIL"
    THEN \* return self.__first_half_bruteforce(bssid, f_half)
         /\ delay' = FALSE
         /\ pc' = "loop"
         /\ UNCHANGED <<phase, f_half, s_half, bruteforce>>
    ELSE /\ f_half' = NextFirstHalf(f_half)
         /\ bruteforce' = registerAttempt(bruteforce, NextFirstHalf(f_half))
         /\ pc' = "loop"
         /\ UNCHANGED <<phase, s_half, delay>>

\* __second_half_bruteforce after single_connection returned
DecideSecondHalf ==
    IF connection_status.last_m_message > 6
    THEN \* return pin
         /\ pc' = "finish"
         /\ UNCHANGED <<phase, f_half, s_half, delay, bruteforce>>
    ELSE IF connection_status.status = "WPS_FAIL"
    THEN \* return self.__second_half_bruteforce(bssid, f_half, s_half)
         /\ delay' = FALSE
         /\ pc' = "loop"
         /\ UNCHANGED <<phase, f_half, s_half, bruteforce>>
    ELSE /\ s_half' = NextSecondHalf(s_half)
         /\ bruteforce' = registerAttempt(bruteforce, f_half \o NextSecondHalf(s_half))
         /\ pc' = "loop"
         /\ UNCHANGED <<phase, f_half, delay>>

Decide ==
    /\ pc = "decide"
    /\ IF phase = 1 THEN DecideFirstHalf ELSE DecideSecondHalf
    /\ UNCHANGED <<lib, single, run, args, env, sessionFile, connection_status, pixie_creds,
                   pin, trace, inflight, cancels, log1, log2, start, prev, attempts>>

\* raise KeyboardInterrupt at the end of smart_bruteforce and its handler: the
\* mask is written to the session file
Finish ==
    /\ pc = "finish"
    /\ sessionFile' = [exists |-> TRUE, content |-> bruteforce.mask]
    /\ pc' = "done"
    /\ UNCHANGED <<lib, single, run, args, env, phase, f_half, s_half, delay, bruteforce,
                   connection_status, pixie_creds, pin, trace, inflight, cancels,
                   log1, log2, start, prev, attempts>>

\* SIGINT or SIGTERM during the run: signal_handler calls sys.exit(0), and
\* SystemExit passes every except clause of the program
Signal ==
    /\ pc \in {"loop", "pump", "decide", "finish"}
    /\ env.signals
    /\ pc' = "exited"
    /\ UNCHANGED <<lib, single, run, args, env, sessionFile, phase, f_half, s_half, delay,
                   bruteforce, connection_status, pixie_creds, pin, trace, inflight,
                   cancels, log1, log2, start, prev, attempts>>

\* the program is started again on the same target, without a start PIN
Resume ==
    /\ pc \in {"done", "exited"}
    /\ env.resumes
    /\ run < MaxRuns
    /\ run' = run + 1
    /\ pc' = "main"
    /\ args' = [args EXCEPT !.start_pin = None]
    /\ prev' = [interrupted |-> pc = "exited", phase |-> phase, start |-> start,
                completed |-> Cardinality({i \in DOMAIN log1 : log1[i].end # "inflight"}),
                mask |-> bruteforce.mask]
    /\ phase' = 0
    /\ f_half' = <<>>
    /\ s_half' = <<>>
    /\ delay' = FALSE
    /\ bruteforce' = BruteforceStatus
    /\ connection_status' = ConnectionStatus
    /\ pixie_creds' = PixiewpsData
    /\ pin' = <<>>
    /\ trace' = <<>>
    /\ inflight' = FALSE
    /\ cancels' = 0
    /\ log1' = <<>>
    /\ log2' = <<>>
    /\ start' = <<>>
    /\ UNCHANGED <<lib, single, env, sessionFile, attempts>>

Next ==
    \/ \E restore \in BOOLEAN : SmartBruteforceStart(restore)
    \/ \E r \in RegReplies : Submit(r)
    \/ Exhausted
    \/ \E line \in NextLines : Pump(line)
    \/ Decide
    \/ Finish
    \/ Signal
    \/ Resume

Spec == Init /\ [][Next]_vars

NextAny ==
    \/ \E restore \in BOOLEAN : SmartBruteforceStart(restore)
    \/ \E r \in RegReplies : Submit(r)
    \/ Exhausted
    \/ \E line \in NextLines : Pump(line)
    \/ Decide
    \/ Finish
    \/ Signal

SpecAny == InitAny /\ [][NextAny]_vars

SpecPixie == InitPixie /\ [][NextAny]_vars

SpecReply == InitReply /\ [][NextAny]_vars


(***************************************************************************)
(* The check digit and the generated PINs                                  *)
(***************************************************************************)
\* digit k of n, counted from the units digit (k = 0)
DigitAt(n, k) ==
    LET RECURSIVE Shift(_, _)
        Shift(m, j) == IF j = 0 THEN m ELSE Shift(m \div 10, j - 1)
    IN  Shift(n, k) % 10

\* the weighted digit sum of the WPS standard for a 7-digit value: weights
\* 3,1,3,1,3,1,3 from the units digit upward
StdWeightedSum(p) ==
      (3 * DigitAt(p, 0)) + DigitAt(p, 1) + (3 * DigitAt(p, 2)) + DigitAt(p, 3)
    + (3 * DigitAt(p, 4)) + DigitAt(p, 5) + (3 * DigitAt(p, 6))

\* the WPS PIN validity test of an 8-digit number: weights 1,3,1,3,1,3,1,3 from
\* the units digit upward sum to a multiple of 10
WpsPinValid(q) ==
    (  DigitAt(q, 0) + (3 * DigitAt(q, 1)) + DigitAt(q, 2) + (3 * DigitAt(q, 3))
     + DigitAt(q, 4) + (3 * DigitAt(q, 5)) + DigitAt(q, 6) + (3 * DigitAt(q, 7))) % 10 = 0

\* C1: for every p in 0..9999999 checksum(p) is the standard WPS check digit,
\* (10 - (weighted digit sum mod 10)) mod 10 with weights 3,1,3,1,3,1,3 from the
\* units digit, and 10*p + checksum(p) passes the WPS PIN validity test.
C1_ChecksumIsStandard ==
    lib.op = "checksum" =>
        /\ lib.pin \in 0..9999999
        /\ lib.result = (10 - (StdWeightedSum(lib.pin) % 10)) % 10
        /\ WpsPinValid((10 * lib.pin) + lib.result)

\* checksum was called on a full 7-digit value whose digits differ and whose
\* check digit is not zero
C1_Witness ==
    /\ lib.op = "checksum"
    /\ lib.pin = 9210129
    /\ lib.result # 0

\* the MAC strings the address codec is specified to accept: six hex octets
\* separated by ':', '-' or '.'
SpecValidMac(m) ==
    /\ Len(m) = MacStrLen
    /\ \A i \in 1..MacStrLen :
          IF i % 3 = 0 THEN m[i] \in Delimiters ELSE IsHexChar(m[i])

\* the MAC written with ':' delimiters
ColonForm(m) == ReplaceChar(ReplaceChar(m, "-", ":"), ".", ":")

\* what generate is specified to return for a MAC-derived or static algorithm
SpecifiedPin(algo, m, result) ==
    /\ Len(result) = 8
    /\ IsDecimal(result)
    /\ NetworkAddress(ColonForm(m)) # ValueError
    /\ SubSeq(result, 1, 7)
         = ZFill(IntToStr(Gen(algo, NetworkAddress(ColonForm(m))) % PinModulus), 7)
    /\ StrToInt(SubSeq(result, 8, 8)) = checksum(StrToInt(SubSeq(result, 1, 7)))

\* C2: for every registered algorithm other than Empty and every valid MAC,
\* generate returns 8 decimal digits: the raw value modulo 10,000,000 zero-padded
\* to 7 digits, then the checksum of those 7 digits.
C2_GenerateEightDigits ==
    (lib.op = "generate" /\ lib.algo \in algos \ {"pinEmpty"} /\ SpecValidMac(lib.mac))
        => SpecifiedPin(lib.algo, lib.mac, lib.result)

\* the same statement for the MACs written with ':' only
C2_ColonMacsOnly ==
    (lib.op = "generate" /\ lib.algo \in algos \ {"pinEmpty"} /\ SpecValidMac(lib.mac)
        /\ ColonForm(lib.mac) = lib.mac)
        => SpecifiedPin(lib.algo, lib.mac, lib.result)

(***************************************************************************)
(* The bruteforce run                                                      *)
(***************************************************************************)
\* the undisturbed run from mask 0000 against the access point whose first
\* half is 1234
DemoRun == env.mode = "faithful" /\ env.fh = Str4(1234) /\ start = Str4(0)

\* in the demo run the k-th phase-1 attempt, when it is the latest one, is for
\* candidate k - 1, the attempt before it ended with a verdict, and phase 2 is
\* entered after attempt 1235 only, at second half 001
DemoSweepState ==
    DemoRun =>
        /\ Len(log1) <= 1235
        /\ log1 # <<>> => log1[Len(log1)].pin = FirstHalfPin(Str4(Len(log1) - 1))
        /\ Len(log1) > 1 => log1[Len(log1) - 1].end = "verdict"
        /\ (phase = 2 \/ log2 # <<>>) =>
              /\ Len(log1) = 1235
              /\ log1[1235].pin = FirstHalfPin(Str4(1234))
              /\ log1[1235].end = "verdict"
        /\ (phase = 2 /\ log2 = <<>>) => (f_half = Str4(1234) /\ s_half = Str3(1))
        /\ log2 # <<>> => log2[1].pin = SecondHalfPin(Str4(1234), Str3(1))

\* in the demo run a step adds at most one attempt at the end of the phase-1
\* log and changes nothing of the attempts before the latest one
DemoSweepStep ==
    DemoRun =>
        /\ Len(log1') \in {Len(log1), Len(log1) + 1}
        /\ SubSeq(log1', 1, Len(log1) - 1) = SubSeq(log1, 1, Len(log1) - 1)
        /\ log1 # <<>> => log1'[Len(log1)].pin = log1[Len(log1)].pin

\* C3: against an access point reporting first-half validity exactly for 1234,
\* a run started from mask 0000 submits one attempt for each of 0000..1234 in
\* ascending order (1235 attempts) and only then enters phase 2, whose first
\* candidate is second half 001.
C3_FirstHalfSweep == [](DemoSweepState) /\ [][DemoSweepStep]_vars

\* the sweep reached 1234 after 1235 attempts and phase 2 submitted its first PIN
C3_Witness ==
    /\ DemoRun
    /\ Len(log1) = 1235
    /\ log1[1235].pin = FirstHalfPin(Str4(1234))
    /\ phase = 2
    /\ Len(log2) = 1
    /\ pc = "pump"

C5_SignalCancelsAndSaves ==
    pc = "exited" =>
        /\ ~inflight
        /\ sessionFile.exists
        /\ sessionFile.content = bruteforce.mask

\* in a log no candidate follows two attempts at it of which the first ended
\* in WPS_FAIL
RetriedOnce(log) ==
    \A i \in DOMAIN log :
        (/\ i + 2 <= Len(log)
         /\ log[i].end = "WPS_FAIL"
         /\ log[i + 1].pin = log[i].pin)
            => log[i + 2].pin # log[i].pin

\* C6: in either phase a candidate whose attempt ends in WPS_FAIL is submitted
\* again exactly once, and after that retry the engine moves to the next one.
C6_SingleRetry == RetriedOnce(log1) /\ RetriedOnce(log2)

\* C7: after an attempt consumed "Received M5" and then "Received WSC_NACK" and
\* nothing else, the status is WSC_NACK and isFirstHalfValid() is true.
C7_M5MarksFirstHalf ==
    trace = <<LineReceived(5), LineNack>> =>
        /\ connection_status.status = "WSC_NACK"
        /\ isFirstHalfValid(connection_status)

\* C8: every attempt ends with WPS_CANCEL sent on the control channel, whatever
\* the way it ended.
C8_AlwaysCancel == pc = "decide" => cancels >= 1

\* the candidate had an attempt whose request was accepted and that ended with
\* a verdict of the protocol
Tried(log, p) == \E i \in DOMAIN log : log[i].pin = p /\ log[i].end = "verdict"

\* C9: the mask names the next untried candidate: every candidate between the
\* start of the run and the mask had an accepted attempt that ended with a
\* verdict.
C9_MaskIsNextUntried ==
    /\ (phase = 1 /\ Len(bruteforce.mask) = 4) =>
          \A c \in StrToInt(start)..(StrToInt(bruteforce.mask) - 1) :
              Tried(log1, FirstHalfPin(Str4(c)))
    /\ (phase = 2 /\ Len(bruteforce.mask) = 7) =>
          \A c \in (IF Len(start) = 7 THEN StrToInt(SubSeq(start, 5, 7)) ELSE 1)
                      ..(StrToInt(SubSeq(bruteforce.mask, 5, 7)) - 1) :
              Tried(log2, SecondHalfPin(f_half, Str3(c)))

\* a decimal string of 4 or of 7 digits
IsMask(m) == Len(m) \in {4, 7} /\ IsDecimal(m)

\* C10: in every state of a run, and in every session file it writes, the mask
\* is a decimal string of exactly 4 or exactly 7 digits.
C10_MaskShape ==
    /\ pc \notin {"off", "main"} => IsMask(bruteforce.mask)
    /\ sessionFile.exists => IsMask(sessionFile.content)

(***************************************************************************)
(* The ends of the two phases                                              *)
(***************************************************************************)
\* C11: phase 1 submits no further candidate once an attempt ended with
\* isFirstHalfValid() or with status GOT_PSK (also when last_m_message is not
\* above 5), and it ends in failure, without a phase 2, once 9999 has been
\* tried without either.
C11_FirstHalfStops ==
    [][/\ (/\ pc = "decide"
           /\ phase = 1
           /\ \/ isFirstHalfValid(connection_status)
              \/ connection_status.status = "GOT_PSK")
          => ~(pc' = "loop" /\ phase' = 1)
       /\ (pc = "loop" /\ phase = 1 /\ ~InRange)
          => (pc' \in {"finish", "exited"} /\ phase' = 1)]_vars

\* C12: a phase-2 attempt is made only for a first half that the last phase-1
\* attempt of this run found valid, or for the mask of a resumed run, never for
\* a first half taken from a start PIN; phase 2 entered from phase 1 starts at
\* second half 001 and is not entered when phase 1 ended with GOT_PSK.
C12_SecondHalfOnlyAfterFirst ==
    /\ log2 # <<>> =>
          \/ /\ log1 # <<>>
             /\ SubSeq(log1[Len(log1)].pin, 1, 4) = f_half
          \/ /\ log1 = <<>>
             /\ args.start_pin = None
    /\ (log1 # <<>> /\ log2 # <<>>) => log2[1].pin = SecondHalfPin(f_half, Str3(1))
    /\ (phase = 2 /\ log1 # <<>> /\ log2 = <<>>) =>
          (s_half = Str3(1) /\ connection_status.status # "GOT_PSK")

\* C13: phase 2 submits no further candidate once an attempt ended with
\* last_m_message > 6 or with status GOT_PSK, and it ends in failure once
\* second half 999 has been tried without either.
C13_SecondHalfStops ==
    [][/\ (/\ pc = "decide"
           /\ phase = 2
           /\ \/ connection_status.last_m_message > 6
              \/ connection_status.status = "GOT_PSK")
          => pc' \in {"finish", "exited"}
       /\ (pc = "loop" /\ phase = 2 /\ ~InRange)
          => pc' \in {"finish", "exited"}]_vars

(***************************************************************************)
(* The attempt and the classifier                                          *)
(***************************************************************************)
\* what the classifier leaves after it was fed the lines of t, one after the
\* other, starting from a cleared status and cleared handshake data
RECURSIVE Replay(_)
Replay(t) ==
    IF t = <<>> THEN [res |-> TRUE, cs |-> ConnectionStatus, px |-> PixiewpsData]
    ELSE LET before == Replay(SubSeq(t, 1, Len(t) - 1))
         IN  handle_wpas(before.cs, before.px, t[Len(t)])

\* the attempt's registration was accepted and its trace is being, or was, read
Reading == pc = "pump" \/ (pc = "decide" /\ trace # <<>>)

\* C14: within an attempt no trace line is fed to the classifier once the
\* status is WSC_NACK, WPS_FAIL or GOT_PSK: every line consumed was consumed
\* in a non-terminal status, and the status and last_m_message the caller sees
\* are those the line that set the terminal status left.
C14_NoLineAfterTerminal ==
    Reading =>
        /\ pc = "pump" => connection_status.status \notin {"WSC_NACK", "WPS_FAIL", "GOT_PSK"}
        /\ \A k \in 0..(Len(trace) - 1) :
              /\ Replay(SubSeq(trace, 1, k)).res
              /\ Replay(SubSeq(trace, 1, k)).cs.status \notin {"WSC_NACK", "WPS_FAIL", "GOT_PSK"}
        /\ connection_status = Replay(trace).cs

\* an attempt ended by the network key line, read after M7 was received
C14_Witness ==
    /\ pc = "decide"
    /\ trace = <<LineReceived(7), LineNetworkKey>>
    /\ connection_status.status = "GOT_PSK"
    /\ connection_status.last_m_message = 7

\* C15: an attempt starts with an empty status, last_m_message 0, no network
\* name, no passphrase and six empty handshake fields, whatever the attempt
\* before it left, and during the attempt these are changed only by the
\* classifier processing a trace line: they are what the lines consumed so
\* far make of the cleared values.
C15_ResetThenClassifierOnly ==
    pc \in {"pump", "decide"} =>
        /\ connection_status = Replay(trace).cs
        /\ pixie_creds = Replay(trace).px

\* all six handshake fields hold a payload of the length the classifier asserts
AllMandated(px) == \A j \in DOMAIN PixieFields : px[PixieFields[j]] = HexLength[PixieFields[j]]

\* C16: got_all() is true exactly when all six handshake fields are non-empty
\* and each has its mandated length; it is false after a trace that delivered
\* a payload of the wrong length for a field.
C16_GotAllMeansComplete == got_all(pixie_creds) <=> AllMandated(pixie_creds)

\* the hexdump line of a handshake field with a payload of another length
\* than the classifier asserts
WrongLength(line) ==
    /\ ~line.eof
    /\ FieldIndex(line) # 0
    /\ line.hex # HexLength[PixieFields[FieldIndex(line)]]

\* C17: a hexdump line whose payload has not the mandated length aborts the
\* attempt: it is the last line the classifier consumes for that PIN, and the
\* field holds the payload as it came, neither truncated nor padded.
C17_WrongLengthAborts ==
    \A k \in DOMAIN trace :
        WrongLength(trace[k]) =>
            /\ k = Len(trace)
            /\ pc # "pump"
            /\ pc = "decide" =>
                  pixie_creds[PixieFields[FieldIndex(trace[k])]] = trace[k].hex

\* an attempt that read two well-formed fields and then a short E-Hash1
C17_Witness ==
    /\ pc = "decide"
    /\ Len(trace) = 3
    /\ trace[3] = LinePixie("e_hash1", HexLength["e_hash1"] - 2)
    /\ pixie_creds.e_nonce = HexLength["e_nonce"]
    /\ pixie_creds.e_hash1 = HexLength["e_hash1"] - 2

\* a line that reaches the WPS-FAIL test of the classifier
IsWpsFailLine(line) ==
    /\ ~line.eof
    /\ ~line.wps
    /\ ": State: " \notin line.has
    /\ "WPS-FAIL" \in line.has

\* C18: a WPS-FAIL line sets the status to WPS_FAIL exactly when the status is
\* already non-empty in the current attempt, and then it ends the attempt; read
\* while the status is still empty it changes nothing and the attempt goes on.
C18_WpsFailNeedsStatus ==
    Reading =>
        /\ connection_status = Replay(trace).cs
        /\ \A k \in DOMAIN trace :
              IsWpsFailLine(trace[k]) =>
                  LET before == Replay(SubSeq(trace, 1, k - 1))
                      after  == Replay(SubSeq(trace, 1, k))
                  IN  IF before.cs.status # ""
                      THEN /\ after.cs.status = "WPS_FAIL"
                           /\ k = Len(trace)
                           /\ pc = "decide"
                      ELSE /\ after.res
                           /\ after.cs = before.cs
                           /\ after.px = before.px
                           /\ k = Len(trace) => pc = "pump"

\* an attempt whose first line was WPS-FAIL went on to read WSC_NACK
C18_Witness ==
    /\ pc = "decide"
    /\ trace = <<LineWpsFail, LineNack>>
    /\ connection_status.status = "WSC_NACK"

\* the 48-bit integer a MAC string stands for, whatever its delimiter and case
SpecInteger(m) ==
    [hi |-> HexToInt(<<m[1], m[2], m[4], m[5], m[7], m[8]>>),
     lo |-> HexToInt(<<m[10], m[11], m[13], m[14], m[16], m[17]>>)]

\* written with one delimiter throughout
OneDelimiter(m) == \E d \in Delimiters : \A i \in {3, 6, 9, 12, 15} : m[i] = d

\* C19: parsing accepts a 6-octet MAC string written with ':', '-' or '.', in
\* either letter case, and yields the integer of its octets and the uppercase
\* colon-separated string, the same for all three delimiters; every other string
\* is rejected with the invalid-address error.
C19_ParseAcceptsThreeDelimiters ==
    lib.op = "parse" =>
        IF SpecValidMac(lib.arg) /\ OneDelimiter(lib.arg)
        THEN lib.result = [string |-> Upper(ColonForm(lib.arg)),
                           integer |-> SpecInteger(lib.arg)]
        ELSE lib.result = ValueError

\* the same statement for the strings written with ':' and no trailing newline
C19_ColonStringsOnly ==
    (lib.op = "parse" /\ (Len(lib.arg) = MacStrLen + 1 => lib.arg[MacStrLen + 1] # "\n"))
        => IF SpecValidMac(lib.arg) /\ ColonForm(lib.arg) = lib.arg
           THEN lib.result = [string |-> Upper(lib.arg), integer |-> SpecInteger(lib.arg)]
           ELSE lib.result = ValueError

\* C20: for every valid MAC string s, parse(toString(parse(s))) = parse(s), and
\* for every integer n of 0..2^48-1, parse(toString(n)) = n.
C20_RoundTrip ==
    /\ (lib.op = "parse" /\ SpecValidMac(lib.arg) /\ OneDelimiter(lib.arg))
          => lib.result # ValueError
    /\ lib.op = "reparse" => lib.result = lib.first
    /\ lib.op = "reparseint" =>
          (lib.result # ValueError /\ lib.result.integer = lib.arg)

\* the round trips of the addresses the constructor does build
C20_BuiltAddressesRoundTrip ==
    /\ lib.op = "reparse" => lib.result = lib.first
    /\ lib.op = "reparseint" =>
          (lib.result # ValueError /\ lib.result.integer = lib.arg
           /\ lib.result.string = lib.first.string)

(***************************************************************************)
(* Claims C21..C30                                                         *)
(***************************************************************************)
\* the address object lib holds after a constructor or an operation on it
IsAddressState ==
    /\ lib # LibIdle
    /\ lib.op \in {"parse", "fromint", "setstring", "setinteger", "iadd", "isub"}
    /\ lib.result # ValueError

\* the string form parses to exactly the integer form
Synchronized(a) ==
    /\ NetworkAddress(a.string) # ValueError
    /\ NetworkAddress(a.string).integer = a.integer

InRange48(n) == n.hi \in 0..(Half - 1) /\ n.lo \in 0..(Half - 1)

\* C21: after any sequence of constructions, assignments to the string or the
\* integer form and += / -=, the string form of the address parses to exactly its
\* integer form, also when the integer leaves 0..2^48-1.
C21_FormsSynchronized ==
    (IsAddressState /\ (lib.op = "setstring" => ~lib.raised))
        => Synchronized(lib.result)

\* the same statement for an address whose string assignment raised
C21_SynchronizedAfterRaise ==
    (IsAddressState /\ lib.op = "setstring" /\ lib.raised)
        => Synchronized(lib.result)

\* the same statement for the operations that raise nothing and leave the integer
\* inside 0..2^48-1
C21_SynchronizedInRange ==
    (/\ IsAddressState
     /\ InRange48(lib.result.integer)
     /\ lib.op = "setstring" => ~lib.raised)
        => Synchronized(lib.result)

\* C22: generate called with an algorithm id that is not in the registry fails
\* with an error the caller sees; it returns no PIN and no other ordinary value.
C22_UnknownAlgorithmRaises ==
    (lib.op = "generate" /\ lib.algo \notin algos) => lib.raised # NoException

\* what generate does return for an unregistered id of a MAC it can parse
C22_UnknownAlgorithmGivesNone ==
    (lib.op = "generate" /\ lib.algo \notin algos) =>
        (lib.result = None /\ lib.raised = NoException)

\* C23: generate with the Empty algorithm returns the empty string for every MAC
\* argument it is given, with no checksum digit and no padding.
C23_EmptyIsEmptyString ==
    (lib.op = "generate" /\ lib.algo = "pinEmpty" /\ SpecValidMac(lib.mac))
        => (lib.result = <<>> /\ lib.raised = NoException)

\* the same statement for the MACs written with ':' only
C23_EmptyForColonMacs ==
    (lib.op = "generate" /\ lib.algo = "pinEmpty" /\ SpecValidMac(lib.mac)
        /\ ColonForm(lib.mac) = lib.mac)
        => (lib.result = <<>> /\ lib.raised = NoException)

\* the calls the caller has made
IsCaller == lib # LibIdle /\ lib.op = "caller"

SpecHexDigits(m) ==
    Upper(<<m[1], m[2], m[4], m[5], m[7], m[8], m[10], m[11], m[13], m[14], m[16], m[17]>>)

\* the ids of the table, in its order, with a prefix of the MAC's hex digits
SpecSuggested(m) ==
    LET hit(row) == \E i \in DOMAIN row.masks : StartsWith(SpecHexDigits(m), row.masks[i])
        rows == SelectSeq(SuggestTable, hit)
    IN  [i \in DOMAIN rows |-> rows[i].id]

Ids(items) == [i \in DOMAIN items |-> items[i].id]

\* C25: for every MAC the suggested ids are exactly the ids of the table with a
\* prefix of the MAC's hex digits, each once and in table order.
C25_SuggestedIsExact ==
    (IsCaller /\ SpecValidMac(lib.mac0)) =>
        \A i \in DOMAIN lib.hist :
            lib.hist[i].fn = "getSuggested"
                => Ids(lib.hist[i].result) = SpecSuggested(lib.mac0)

\* the same statement for the MACs written with ':' only
C25_ExactForColonMacs ==
    (IsCaller /\ SpecValidMac(lib.mac0) /\ ColonForm(lib.mac0) = lib.mac0) =>
        \A i \in DOMAIN lib.hist :
            lib.hist[i].fn = "getSuggested"
                => Ids(lib.hist[i].result) = SpecSuggested(lib.mac0)

\* C26: getLikely returns None if and only if getSuggested(mac) is empty, and
\* otherwise the PIN of the first suggested item.
C26_LikelyIsFirstSuggested ==
    IsCaller =>
        \A i \in DOMAIN lib.hist :
            lib.hist[i].fn = "getLikely" =>
                LET sug == getSuggested(lib.mac0)
                IN  /\ lib.hist[i].result = None <=> sug = <<>>
                    /\ sug # <<>> => lib.hist[i].result = sug[1].pin

\* getLikely answered for a MAC with several suggestions whose first and last
\* PINs differ
C26_Witness ==
    /\ IsCaller
    /\ lib.hist # <<>>
    /\ lib.hist[Len(lib.hist)].fn = "getLikely"
    /\ lib.hist[Len(lib.hist)].result # None
    /\ LET sug == getSuggested(lib.mac0)
       IN  Len(sug) >= 2 /\ sug[1].pin # sug[Len(sug)].pin

\* getLikely answered None for a MAC written with ":" that has no suggestion
C26_WitnessNone ==
    /\ IsCaller
    /\ lib.hist # <<>>
    /\ lib.hist[Len(lib.hist)].fn = "getLikely"
    /\ lib.hist[Len(lib.hist)].result = None
    /\ SpecValidMac(lib.mac0) /\ ColonForm(lib.mac0) = lib.mac0

BeginsWithOk(r) == StartsWith(r, <<"O", "K">>)

\* C27: a register-PIN request is treated as accepted exactly when the reply
\* begins with "OK"; for any other reply, also one that holds "OK" elsewhere, the
\* attempt ends as a failure and no trace line is consumed.
C27_AcceptedIffBeginsWithOk ==
    env.mode = "replies" =>
        /\ (pc = "pump" \/ trace # <<>>) => BeginsWithOk(env.reply)
        /\ (pc = "decide" /\ ~BeginsWithOk(env.reply)) =>
              (trace = <<>> /\ connection_status.status = "WPS_FAIL" /\ ~inflight)
        /\ (pc = "decide" /\ BeginsWithOk(env.reply)) => trace # <<>>

\* the same statement with the test the code makes: "OK" anywhere in the reply
C27_AcceptedIffHoldsOk ==
    env.mode = "replies" =>
        /\ (pc = "pump" \/ trace # <<>>) => Contains(env.reply, <<"O", "K">>)
        /\ (pc = "decide" /\ ~Contains(env.reply, <<"O", "K">>)) =>
              (trace = <<>> /\ connection_status.status = "WPS_FAIL" /\ ~inflight)
        /\ (pc = "decide" /\ Contains(env.reply, <<"O", "K">>)) => trace # <<>>

\* the log of the running phase, and how its last attempt ended
PhaseLog == IF phase = 1 THEN log1 ELSE log2

LastEnd == IF PhaseLog = <<>> THEN "none" ELSE PhaseLog[Len(PhaseLog)].end

\* C28: a transport error on the control channel aborts the attempt and reaches
\* the caller as a failure distinct from a wrong PIN: the engine does not go on
\* to the next candidate as if this one had been rejected.
C28_CtrlErrorIsNotRejection ==
    [][(pc = "decide" /\ LastEnd = "ctrl_error")
          => (f_half' = f_half /\ s_half' = s_half /\ bruteforce' = bruteforce)]_vars

\* the part that holds: the attempt is aborted before any trace line is read
C28_CtrlErrorAborts ==
    (pc = "decide" /\ LastEnd = "ctrl_error") =>
        (trace = <<>> /\ cancels = 0 /\ connection_status = ConnectionStatus)

\* attempts of the running phase made with the PIN of the last attempt
AttemptsOnCandidate == Cardinality({i \in DOMAIN PhaseLog : PhaseLog[i].pin = pin})

\* C30: a run whose attempts all terminate terminates: the attempts made for one
\* candidate are bounded, also when every attempt ends in WPS_FAIL or every
\* WPS_REG is rejected. Within the MaxAttempts attempts of a run, one candidate
\* does not take them all.
C30_RetriesBounded == AttemptsOnCandidate < MaxAttempts

\* the advance to the next candidate happens whenever an attempt ends otherwise
C30_OtherEndsAdvance ==
    [][(/\ pc = "decide"
        /\ connection_status.status # "WPS_FAIL"
        /\ pc' = "loop"
        /\ phase' = phase)
          => (IF phase = 1 THEN f_half' = NextFirstHalf(f_half)
              ELSE s_half' = NextSecondHalf(s_half))]_vars

(***************************************************************************)
(* main and single_connection                                              *)
(***************************************************************************)
\* '12345670'
DefaultPin == <<"1", "2", "3", "4", "5", "6", "7", "0">>

\* what __runPixiewps returns: False (None here) when pixiewps fails or prints no
\* 'WPS pin' line, else the text after the last ':' of that line, "''" for <empty>
ToolOutputs == {None, <<"8", "7", "1", "3", "6", "3", "3", "3">>, <<"'", "'">>}

\* targets: one whose prefix is in the table of _suggest, one whose is not, one
\* for which the table gives pinEmpty first
SingleTargets ==
    {FormatMac(<<20, 214, 77, 0, 0, 1>>, ":", FALSE),
     FormatMac(<<170, 187, 204, 9, 255, 255>>, ":", FALSE),
     FormatMac(<<228, 111, 19, 0, 0, 1>>, ":", FALSE)}

\* the access point and supplicant of a single_connection run
Single == [mode |-> "single", fh |-> <<>>, sh |-> <<>>, signals |-> TRUE, resumes |-> FALSE]

\* main is started without --bruteforce: the target, --pin, --pixie-dust, and the
\* PIN file pixiewps_dir/<BSSID>.run a previous run may have left
InitSingle ==
    /\ lib = LibIdle
    /\ single \in {[NoSingle EXCEPT !.saved = f] : f \in {None, DefaultPin}}
    /\ pc = "main"
    /\ run = 1
    /\ \E b \in SingleTargets, sp \in {None, DefaultPin}, k \in BOOLEAN, w \in BOOLEAN :
          args = [start_pin |-> sp, delay |-> FALSE, bssid |-> b, pixie_dust |-> k,
                  write |-> w]
    /\ env = Single
    /\ sessionFile = [exists |-> FALSE, content |-> <<>>]
    /\ phase = 0
    /\ f_half = <<>>
    /\ s_half = <<>>
    /\ delay = FALSE
    /\ bruteforce = BruteforceStatus
    /\ connection_status = ConnectionStatus
    /\ pixie_creds = PixiewpsData
    /\ pin = <<>>
    /\ trace = <<>>
    /\ inflight = FALSE
    /\ cancels = 0
    /\ log1 = <<>>
    /\ log2 = <<>>
    /\ start = <<>>
    /\ prev = NoPrev
    /\ attempts = 0

\* companion.single_connection(args.bssid, args.pin, args.pixie_dust, ..)
MainSingle ==
    /\ pc = "main"
    /\ single' = [single EXCEPT !.pin = args.start_pin, !.pixiemode = args.pixie_dust,
                                !.store_pin_on_fail = FALSE, !.returned = ""]
    /\ pc' = "single"
    /\ UNCHANGED <<lib, run, args, env, sessionFile, phase, f_half, s_half, delay,
                   bruteforce, connection_status, pixie_creds, pin, trace, inflight,
                   cancels, log1, log2, start, prev, attempts>>

OrDefault(p) == IF p = None \/ p = <<>> THEN DefaultPin ELSE p

\* the PINs the frame may go on with: the one it was given; in pixie mode the
\* stored one if the operator takes it, else getLikely(bssid) or '12345670';
\* otherwise what __prompt_wpspin returns, or '12345670'
PinChoices ==
    IF pc # "single" THEN {}
    ELSE IF single.pin # None /\ single.pin # <<>> THEN {single.pin}
    ELSE IF single.pixiemode
    THEN (IF single.saved # None THEN {single.saved} ELSE {})
         \cup {OrDefault(getLikely(args.bssid))}
    ELSE LET pins == getSuggested(args.bssid)
         IN  IF pins = <<>> THEN {DefaultPin}
             ELSE {OrDefault(pins[i].pin) : i \in DOMAIN pins}

\* single_connection up to the reply to WPS_REG in __wps_connection
SingleConnection(p, r) ==
    /\ pc = "single"
    /\ p \in PinChoices
    /\ pin' = p
    /\ pixie_creds' = PixiewpsData
    /\ trace' = <<>>
    /\ cancels' = 0
    /\ attempts' = attempts + 1
    /\ IF r = CtrlError
       THEN /\ connection_status' = ConnectionStatus
            /\ inflight' = inflight
            /\ Logged([pin |-> p, end |-> "ctrl_error"])
            /\ pc' = "decide"
       ELSE IF ~Contains(r, <<"O", "K">>)
       THEN /\ connection_status' = [ConnectionStatus EXCEPT !.status = "WPS_FAIL"]
            /\ inflight' = inflight
            /\ Logged([pin |-> p, end |-> "rejected"])
            /\ pc' = "decide"
       ELSE /\ connection_status' = ConnectionStatus
            /\ inflight' = TRUE
            /\ Logged([pin |-> p, end |-> "inflight"])
            /\ pc' = "pump"
    /\ UNCHANGED <<lib, single, run, args, env, sessionFile, phase, f_half, s_half, delay,
                   bruteforce, start, prev>>

Returns(value, saved) ==
    /\ single' = [single EXCEPT !.returned = value, !.saved = saved]
    /\ pc' = "done"

\* a __saveResult whose failure reaches its caller
saveResultUncaught(report, row, fails) ==
    [report |-> IF fails THEN report ELSE Append(report, row), failed |-> fails,
     raised |-> fails]

\* __saveResult: the row is appended to the report files; a failure is logged
\* and not raised
saveResult(report, row, fails) ==
    [report |-> IF fails THEN report ELSE Append(report, row), failed |-> fails,
     raised |-> FALSE]

\* the GOT_PSK branch: __credentialPrint, __saveResult under --write, removal of
\* the PIN file, return True; an exception ends in the except clause (return False)
GotPsk(fails) ==
    LET creds == [pin |-> pin, wpa_psk |-> connection_status.wpa_psk,
                  essid |-> connection_status.essid]
        s == IF args.write THEN saveResult(single.report, creds, fails)
             ELSE [report |-> single.report, failed |-> FALSE, raised |-> FALSE]
    IN  /\ single' = [single EXCEPT !.shown = Append(@, creds),
                                    !.report = s.report,
                                    !.save_failed = s.failed,
                                    !.saved = IF s.raised THEN @ ELSE None,
                                    !.returned = IF s.raised THEN "False" ELSE "True"]
        /\ pc' = "done"

\* a confirmation frame that is in pixie mode again
ConfirmationFrameInPixieMode == [pixiemode |-> TRUE, store_pin_on_fail |-> TRUE]

\* the arguments of the call made with the PIN pixiewps printed:
\* single_connection(bssid, pin, pixiemode=False, store_pin_on_fail=True)
ConfirmationFrame == [pixiemode |-> FALSE, store_pin_on_fail |-> TRUE]

\* single_connection after __wps_connection returned; found is what pixiewps
\* prints when it is run, fails whether writing the report fails
SingleResult(found, fails) ==
    /\ pc = "decide"
    /\ IF connection_status.status = "GOT_PSK"
       THEN GotPsk(fails)
       ELSE IF single.pixiemode
       THEN IF got_all(pixie_creds)
            THEN IF found # None
                 THEN \* return self.single_connection(bssid, pin, pixiemode=False,
                      \*                               store_pin_on_fail=True)
                      /\ single' = [single EXCEPT !.tools = Append(@, pixie_creds),
                                                  !.pin = found,
                                                  !.pixiemode = ConfirmationFrame.pixiemode,
                                                  !.store_pin_on_fail =
                                                      ConfirmationFrame.store_pin_on_fail]
                      /\ pc' = "single"
                 ELSE /\ single' = [single EXCEPT !.tools = Append(@, pixie_creds),
                                                  !.returned = "False"]
                      /\ pc' = "done"
            ELSE \* 'Not enough data to run Pixie Dust attack'
                 Returns("False", single.saved)
       ELSE Returns("False", IF single.store_pin_on_fail THEN pin ELSE single.saved)
    /\ UNCHANGED <<lib, run, args, env, sessionFile, phase, f_half, s_half, delay,
                   bruteforce, connection_status, pixie_creds, pin, trace, inflight,
                   cancels, log1, log2, start, prev, attempts>>

NextSingle ==
    \/ MainSingle
    \/ \E p \in PinChoices, r \in RegReplies : SingleConnection(p, r)
    \/ \E line \in NextLines : Pump(line)
    \/ \E found \in ToolOutputs, fails \in BOOLEAN : SingleResult(found, fails)
    \/ Signal

SpecSingle == InitSingle /\ [][NextSingle]_vars

(***************************************************************************)
(* Claim C29                                                               *)
(***************************************************************************)
\* some line the running attempt read carried a non-empty payload for the j-th field
CollectedInAttempt(j) ==
    \E k \in DOMAIN trace : FieldIndex(trace[k]) = j /\ trace[k].hex # 0

AllSixCollected == \A j \in DOMAIN PixieFields : CollectedInAttempt(j)

ToolRuns == Len(single.tools)

C29_WitnessMissing ==
    /\ pc = "done"
    /\ single.pixiemode
    /\ single.returned = "False"
    /\ Cardinality({j \in DOMAIN PixieFields : CollectedInAttempt(j)}) = 5
    /\ ToolRuns = 0
    /\ attempts = 1

\* C29 (data kept): every run of pixiewps was given six non-empty parameters
C29_ToolDataComplete ==
    \A i \in DOMAIN single.tools :
        \A j \in DOMAIN PixieFields : single.tools[i][PixieFields[j]] # 0

(***************************************************************************)
(* Claims C31..C40                                                         *)
(***************************************************************************)
Credentials ==
    [pin |-> pin, wpa_psk |-> connection_status.wpa_psk, essid |-> connection_status.essid]

WindowLength == 15

\* a new BruteforceStatus: the attempts_times deque, and the number of
\* display_status calls and of registerAttempt calls made on the object
NoStatistics == [op |-> "statistics", attempts_times |-> <<>>, displayed |-> 0, registered |-> 0]

Statistics == IF lib = LibIdle THEN NoStatistics ELSE lib

\* time.time() - self.last_attempt_time in whole seconds: the attempts take one
\* second until the access point slows down, and two from then on
Durations == {IF Statistics.registered < env.slows_at THEN 1 ELSE 2}

\* an append that keeps every element
appendUnbounded(times, d) == Append(times, d)

\* deque.append on a deque with maxlen: a full deque drops its oldest element
append(times, d) ==
    IF Len(times) = WindowLength THEN Append(Tail(times), d) ELSE Append(times, d)

\* the part of registerAttempt that keeps the durations and calls display_status
\* when the counter reaches statistics_period
timeAttempt(st, bf, d) ==
    [op |-> "statistics",
     attempts_times |-> append(st.attempts_times, d),
     displayed |-> IF bf.counter + 1 = StatisticsPeriod THEN st.displayed + 1
                   ELSE st.displayed,
     registered |-> st.registered + 1]

\* first halves of the access points of the timed runs
StatsFirstHalf == 15

\* a faithful access point that slows down after k registered attempts
Slowing(fh, sh, k) ==
    [mode |-> "faithful", fh |-> fh, sh |-> sh, signals |-> FALSE, resumes |-> FALSE,
     slows_at |-> k]

\* timed runs: from 0000 against a faithful access point far enough for the
\* deque to fill, and from 9998 to the end of the range
StatsScenarios ==
    {Scenario(Slowing(Str4(StatsFirstHalf), Str3(sh), k), None, FALSE, <<>>) :
        sh \in 2..3, k \in 0..(StatsFirstHalf + 2)}
    \cup {Scenario(Slowing(Str4(2), Str3(1), k), Str4(9998), FALSE, <<>>) : k \in 0..2}

InitStats == Started(StatsScenarios)

\* a phase after single_connection returned, with the time the attempt took
DecideTimed(d) ==
    /\ pc = "decide"
    /\ IF phase = 1 THEN DecideFirstHalf ELSE DecideSecondHalf
    /\ lib' = IF bruteforce' # bruteforce THEN timeAttempt(Statistics, bruteforce, d)
              ELSE lib
    /\ UNCHANGED <<single, run, args, env, sessionFile, connection_status, pixie_creds,
                   pin, trace, inflight, cancels, log1, log2, start, prev, attempts>>

NextStats ==
    \/ \E restore \in BOOLEAN : SmartBruteforceStart(restore)
    \/ \E r \in RegReplies : Submit(r)
    \/ Exhausted
    \/ \E line \in NextLines : Pump(line)
    \/ \E d \in Durations : DecideTimed(d)
    \/ Finish

SpecStats == InitStats /\ [][NextStats]_vars

\* the candidates of a run are those of the sweep from its starting mask
CandidatesFollowSweep ==
    /\ \A i \in DOMAIN log1 :
          log1[i].pin = FirstHalfPin(Str4(StrToInt(start) + i - 1))
    /\ \A i \in DOMAIN log2 : log2[i].pin = SecondHalfPin(f_half, Str3(i))

\* a registerAttempt step keeps the most recent durations and drops the oldest
\* from a full deque
WindowStep ==
    LET w == Statistics.attempts_times
        w2 == lib'.attempts_times
    IN  lib' # lib =>
          /\ lib'.registered = Statistics.registered + 1
          /\ SubSeq(w2, 1, Len(w2) - 1) = (IF Len(w) = WindowLength THEN Tail(w) ELSE w)
          /\ w2[Len(w2)] \in Durations
          /\ f_half' = (IF phase = 1 THEN NextFirstHalf(f_half) ELSE f_half)
          /\ s_half' = (IF phase = 2 THEN NextSecondHalf(s_half) ELSE s_half)

\* C32: the deque never holds more than 15 durations, and they are the most
\* recent ones; display_status has been called once for every 5 calls of
\* registerAttempt; the candidates submitted are those of the sweep whatever
\* durations were recorded.
C32_StatisticsAreInformational ==
    /\ [](/\ Len(Statistics.attempts_times) <= WindowLength
          /\ Statistics.displayed = Statistics.registered \div StatisticsPeriod
          /\ CandidatesFollowSweep)
    /\ [][WindowStep]_vars

\* C32 witness: 16 attempts were registered, the deque holds 15 durations that
\* are not all equal, and three reports were displayed
C32_Witness ==
    /\ Statistics.registered = WindowLength + 1
    /\ Len(Statistics.attempts_times) = WindowLength
    /\ Statistics.attempts_times[1] # Statistics.attempts_times[WindowLength]
    /\ Statistics.displayed = 3
    /\ phase = 2

(***************************************************************************)
(* Attempts against surroundings that stop answering                       *)
(***************************************************************************)
\* attempts whose WPS_REG the control channel answers before it goes silent
MaxAnswers == 2

\* trace lines the supplicant writes in an attempt before it goes silent
MaxWritten == 2

\* surroundings that answer the first a requests and write l lines per attempt;
\* after that recvfrom and readline do not return
Stalling(a, l) ==
    [mode |-> "stalling", fh |-> <<>>, sh |-> <<>>, signals |-> FALSE, resumes |-> FALSE,
     answers |-> a, lines |-> l]

StallingScenarios ==
    {Scenario(Stalling(a, l), sp, FALSE, <<>>) :
        a \in 0..MaxAnswers, l \in 0..MaxWritten, sp \in {None, Str4(9999)}}

InitStalling == Started(StallingScenarios)

\* the while test of a phase, single_connection and __wps_connection up to
\* retsock.sendto in sendAndReceive
Send ==
    /\ pc = "loop"
    /\ InRange
    /\ attempts <= env.answers
    /\ LET p == IF phase = 1 THEN FirstHalfPin(f_half) ELSE SecondHalfPin(f_half, s_half)
       IN  /\ pin' = p
           /\ Logged([pin |-> p, end |-> "sent"])
    /\ pixie_creds' = PixiewpsData
    /\ connection_status' = ConnectionStatus
    /\ trace' = <<>>
    /\ cancels' = 0
    /\ attempts' = attempts + 1
    /\ pc' = "recv"
    /\ UNCHANGED <<lib, single, run, args, env, sessionFile, phase, f_half, s_half, delay,
                   bruteforce, inflight, start, prev>>

\* retsock.recvfrom returns (or sendAndReceive raises) and __wps_connection
\* tests the reply
Receive(r) ==
    /\ pc = "recv"
    /\ IF r = CtrlError
       THEN /\ connection_status' = connection_status
            /\ inflight' = inflight
            /\ SetEnd("ctrl_error")
            /\ pc' = "decide"
       ELSE IF ~Contains(r, <<"O", "K">>)
       THEN /\ connection_status' = [connection_status EXCEPT !.status = "WPS_FAIL"]
            /\ inflight' = inflight
            /\ SetEnd("rejected")
            /\ pc' = "decide"
       ELSE /\ connection_status' = connection_status
            /\ inflight' = TRUE
            /\ SetEnd("inflight")
            /\ pc' = "pump"
    /\ UNCHANGED <<lib, single, run, args, env, sessionFile, phase, f_half, s_half, delay,
                   bruteforce, pixie_creds, pin, trace, cancels, start, prev, attempts>>

NextStalling ==
    \/ \E restore \in BOOLEAN : SmartBruteforceStart(restore)
    \/ Send
    \/ \E r \in RegReplies : Receive(r)
    \/ Exhausted
    \/ \E line \in NextLines : Pump(line)
    \/ Decide
    \/ Finish

\* the process is scheduled: a step that can be taken is taken
SpecStalling == InitStalling /\ [][NextStalling]_vars /\ WF_vars(NextStalling)

\* C33: an attempt that waits for the reply to WPS_REG or for a trace line
\* eventually ends and returns to its phase.
C33_NoAttemptBlocksForever == (pc \in {"recv", "pump"}) ~> (pc = "decide")

\* C33 (answered): an attempt ends when its request is answered and its trace
\* reaches a terminal status or the end of the stream
C33_AnsweredAttemptsEnd ==
    [][(pc = "pump" /\ (connection_status'.status \in TerminalStatus \/ trace'[Len(trace')].eof))
       => pc' = "decide"]_vars

(***************************************************************************)
(* Claim C34                                                               *)
(***************************************************************************)
\* the WPS rule on eight decimal digits: 3 * (d1 + d3 + d5 + d7) + d2 + d4 + d6 + d8
\* is a multiple of 10
ValidWpsPin(p) ==
    /\ Len(p) = 8
    /\ IsDecimal(p)
    /\ ((3 * (DecVal(p[1]) + DecVal(p[3]) + DecVal(p[5]) + DecVal(p[7])))
        + DecVal(p[2]) + DecVal(p[4]) + DecVal(p[6]) + DecVal(p[8])) % 10 = 0

DecimalMask(m) == Len(m) \in {4, 7} /\ IsDecimal(m)

\* C34: in a run from a 4-digit or 7-digit decimal mask the PIN of every attempt
\* is eight decimal digits with a valid WPS check digit: the first half and 000
\* in phase 1, the first half and the 3-digit second half in phase 2.
C34_SubmittedPinsAreValid ==
    (pc \in {"pump", "decide"} /\ DecimalMask(start))
    => /\ ValidWpsPin(pin)
       /\ Len(f_half) = 4
       /\ SubSeq(pin, 1, 4) = f_half
       /\ phase = 1 => SubSeq(pin, 5, 7) = <<"0", "0", "0">>
       /\ phase = 2 => (Len(s_half) = 3 /\ SubSeq(pin, 5, 7) = s_half)

\* C34 witness: a run from a 7-digit mask is in an attempt of phase 2 whose
\* second half is not 000 and whose check digit is not 0
C34_Witness ==
    /\ pc = "decide"
    /\ Len(start) = 7
    /\ phase = 2
    /\ SubSeq(pin, 5, 7) = Str3(2)
    /\ pin[8] # "0"

(***************************************************************************)
(* Claims C35, C36                                                         *)
(***************************************************************************)
\* the line a Pump step has just read
Read == trace'[Len(trace')]

Reads == pc = "pump" /\ Len(trace') = Len(trace) + 1

AfterEof == trace # <<>> /\ trace[Len(trace)].eof

\* C35: when the trace stream ends during an attempt the loop of the attempt
\* stops (the classifier returned False), the status and the handshake data are
\* what they were, and nothing more is read in this attempt.
C35_EndOfStreamStopsAttempt ==
    [][/\ (Reads /\ Read.eof)
          => /\ pc' = "decide"
             /\ connection_status' = connection_status
             /\ pixie_creds' = pixie_creds
       /\ AfterEof => (trace' = trace \/ trace' = <<>>)]_vars

\* C35 witness: the stream ended after a line that set the status, and the
\* attempt stopped with that status
C35_Witness ==
    /\ pc = "decide"
    /\ trace = <<LineScanning, EOF>>
    /\ connection_status.status = "scanning"
    /\ cancels = 1

\* the substrings the branches of __handle_wpas look for in a 'WPS: ' line, and
\* in the other lines
WpsRules ==
    {"Building Message M", "Received M", "Received WSC_NACK"}

HexdumpRules ==
    {"Enrollee Nonce", "DH own Public Key", "DH peer Public Key", "AuthKey", "E-Hash1",
     "E-Hash2", "Network Key"}

PlainRules ==
    {"Trying to authenticate with", "Authentication response", "Trying to associate with",
     "Associated with", "EAPOL: txStart", "EAP entering state IDENTITY",
     "using real identity"}

\* no rule of the classifier matches the line
MatchesNoRule(line) ==
    /\ ~line.eof
    /\ IF line.wps
       THEN /\ line.has \cap WpsRules = {}
            /\ "hexdump" \in line.has => line.has \cap HexdumpRules = {}
       ELSE IF ": State: " \in line.has THEN "-> SCANNING" \notin line.has
       ELSE "WPS-FAIL" \notin line.has /\ line.has \cap PlainRules = {}

\* C36: a line that matches no rule of the classifier leaves the status,
\* last_m_message, the network name, the passphrase and the six handshake fields
\* as they were, and the attempt goes on reading.
C36_UnmatchedLineIsIgnored ==
    [][(Reads /\ MatchesNoRule(Read))
       => /\ connection_status' = connection_status
          /\ pixie_creds' = pixie_creds
          /\ pc' = "pump"]_vars

\* C36 witness: two lines without a rule were read after one that set the
\* status, and the attempt is still reading with that status
C36_Witness ==
    /\ pc = "pump"
    /\ Len(trace) = 2
    /\ trace[1] = LineScanning
    /\ trace[2] = Line(TRUE, {"E-Hash1"}, NotANumber, 0)
    /\ connection_status.status = "scanning"
    /\ pixie_creds = PixiewpsData

(***************************************************************************)
(* Runs against an access point that holds a PIN                           *)
(***************************************************************************)
\* first halves 0..MaxHeldFirst and second halves 0..MaxHeldSecond of the PINs held
MaxHeldFirst == 3

MaxHeldSecond == 3

\* runs from mask 0000, left undisturbed, against a faithful access point
HoldingScenarios ==
    {Scenario(Faithful(Str4(fh), Str3(sh), FALSE, FALSE), None, d, <<>>) :
        fh \in 0..MaxHeldFirst, sh \in 0..MaxHeldSecond, d \in BOOLEAN}

InitHolding == Started(HoldingScenarios)

NextHolding ==
    \/ \E restore \in BOOLEAN : SmartBruteforceStart(restore)
    \/ \E r \in RegReplies : Submit(r)
    \/ \E line \in NextLines : Pump(line)
    \/ Decide
    \/ Finish

\* the process is scheduled and the access point answers: a step that can be
\* taken is taken
SpecHolding == InitHolding /\ [][NextHolding]_vars /\ WF_vars(NextHolding)

(***************************************************************************)
(* Claim C37                                                               *)
(***************************************************************************)
HeldPin == SecondHalfPin(env.fh, env.sh)

FoundHeldPin ==
    /\ pc = "done"
    /\ connection_status.status = "GOT_PSK"
    /\ pin = HeldPin
    /\ Len(log1) = StrToInt(env.fh) + 1
    /\ Len(log1) <= FirstHalfLimit
    /\ Len(log2) = StrToInt(env.sh)
    /\ Len(log2) <= SecondHalfLimit - 1
    /\ Cardinality({i \in DOMAIN log1 : log1[i].pin = HeldPin})
       + Cardinality({i \in DOMAIN log2 : log2[i].pin = HeldPin}) = 1

\* C37: a run from mask 0000 against a faithful access point eventually stops
\* with the key, having submitted the held PIN once, after one phase-1 attempt
\* for each first half up to the held one and one phase-2 attempt for each second
\* half from 001 to the held one; a PIN whose second half is 000 is found by the
\* phase-1 attempt.
C37_HeldPinIsFound == <>FoundHeldPin

\* C37 witness: a PIN whose second half is 000 was found by the phase-1 attempt
\* for its first half, with no phase-2 attempt
C37_Witness ==
    /\ pc = "done"
    /\ env.fh = Str4(2) /\ env.sh = Str3(0)
    /\ connection_status.status = "GOT_PSK"
    /\ pin = FirstHalfPin(Str4(2))
    /\ Len(log1) = 3
    /\ log2 = <<>>

\* C37 (second half found): the PIN 0003 003x was found by the third attempt
\* of phase 2
C37_WitnessPhaseTwo ==
    /\ pc = "done"
    /\ env.fh = Str4(3) /\ env.sh = Str3(3)
    /\ connection_status.status = "GOT_PSK"
    /\ Len(log1) = 4
    /\ Len(log2) = 3
    /\ phase = 2

(***************************************************************************)
(* Claim C38                                                               *)
(***************************************************************************)
InPhase == pc \in {"loop", "pump", "decide"}

\* C38: while a phase of a run with a configured delay is running, the frame that
\* runs it has the delay, so that time.sleep(delay) follows every advance.
C38_DelayKeptInPhase == (InPhase /\ args.delay) => delay

\* C38 (before any WPS_FAIL): the frame has the configured delay as long as no
\* attempt of the phase ended in WPS_FAIL
C38_DelayKeptUntilWpsFail ==
    (InPhase /\ args.delay
     /\ \A i \in DOMAIN PhaseLog : PhaseLog[i].end \notin {"WPS_FAIL", "rejected"})
    => delay

(***************************************************************************)
(* Claim C39                                                               *)
(***************************************************************************)
\* the run made a confirmation attempt with the PIN pixiewps printed, and
\* single_connection returned
Confirmed == pc = "done" /\ ToolRuns = 1 /\ attempts = 2

C39_WitnessKey ==
    /\ Confirmed
    /\ connection_status.status = "GOT_PSK"
    /\ single.saved = None
    /\ single.returned = "True"

(***************************************************************************)
(* Claim C40                                                               *)
(***************************************************************************)
\* the first attempt of a run that was given no PIN and found no PIN file has
\* just been submitted
FirstSubmitted ==
    /\ pc \in {"pump", "decide"}
    /\ trace = <<>>
    /\ attempts = 1
    /\ args.start_pin = None
    /\ single.saved = None

\* the PINs the generator offers for the target: getLikely in pixie mode, the
\* list __prompt_wpspin shows otherwise
Offered ==
    IF args.pixie_dust
    THEN IF getLikely(args.bssid) = None THEN {} ELSE {getLikely(args.bssid)}
    ELSE {getSuggested(args.bssid)[i].pin : i \in DOMAIN getSuggested(args.bssid)}

\* C40: when no PIN is supplied, the PIN submitted is one the generator offers for
\* the target (the empty PIN included), and 12345670 only when it offers none.
C40_DefaultOnlyWithoutCandidate ==
    FirstSubmitted => IF Offered = {} THEN pin = DefaultPin ELSE pin \in Offered

\* C40 (non-empty candidates): a candidate that is not the empty PIN is submitted,
\* and 12345670 when there is no candidate or only the empty one
C40_NonEmptyCandidateIsSubmitted ==
    FirstSubmitted => IF Offered \ {<<>>} = {} THEN pin = DefaultPin
                      ELSE pin \in (Offered \ {<<>>}) \cup {DefaultPin}

=============================================================================
